---- MODULE Spec2Model ----
(***************************************************************************)
(* Model of the causal reasoning engine of backend/app/services/causal:    *)
(* the 4-step CausalAgent.query loop, the guardrails it calls and the      *)
(* trace store it writes to.                                               *)
(*                                                                         *)
(* Numbers: probabilities, scores and confidences are integers in          *)
(* thousandths (0.7 is 700); HRV is in ms and glucose in mg/dL.            *)
(* An optional map (dict | None) is a record with a `present` flag, an     *)
(* optional key of the map is a has_* flag next to the value.              *)
(***************************************************************************)
EXTENDS Integers, Sequences, FiniteSets, TLC

\* ---------------------------------------------------------------- bounds
MaxQueries == 1

\* ---------------------------------------------------------------- inputs
Symptoms == {"fatigue", "dizziness"}
HrvInputs == {0, 15, 19, 20, 21, 45}
GlucoseInputs == {0, 69, 70, 140, 141, 160, 161}

\* ---------------------------------------------------------------- constants
MAX_ITERATIONS == 3
CONFIDENCE_THRESHOLD == 700
HRV_SAFETY_THRESHOLD_MS == 20

NoneStr == "None"

\* ---------------------------------------------------------------- data
\* dict[str, Any] | None returned by an adapter
NoData == [present |-> FALSE, has_hrv |-> FALSE, hrv_ms |-> 0, value_mg_dl |-> 0]
PulseData(hasHrv, hrv) ==
    [present |-> TRUE, has_hrv |-> hasHrv, hrv_ms |-> hrv, value_mg_dl |-> 0]
GlucoseData(v) ==
    [present |-> TRUE, has_hrv |-> FALSE, hrv_ms |-> 0, value_mg_dl |-> v]
SomeData == [present |-> TRUE, has_hrv |-> FALSE, hrv_ms |-> 0, value_mg_dl |-> 0]

MCPToolResult(d, s) == [data |-> d, source |-> s]

\* AppleHealthAdapter.get_pulse: None when neither an HRV nor a heart-rate row
\* is in the window, else a map holding hrv_ms iff an HRV row was found.
get_pulse_results ==
    {MCPToolResult(NoData, "apple_health"),
     MCPToolResult(PulseData(FALSE, 0), "apple_health")}
    \cup {MCPToolResult(PulseData(TRUE, h), "apple_health") : h \in HrvInputs}

\* CGMSteloAdapter.get_current_glucose: None without readings, else value_mg_dl.
get_current_glucose_results ==
    {MCPToolResult(NoData, "cgm_stelo")}
    \cup {MCPToolResult(GlucoseData(v), "cgm_stelo") : v \in GlucoseInputs}

\* RotimaticServerAdapter.get_last_session
get_last_session_results ==
    {MCPToolResult(NoData, "rotimatic_server"),
     MCPToolResult(SomeData, "rotimatic_server")}

\* InstacartServerAdapter.get_recent_receipts
get_recent_receipts_results ==
    {MCPToolResult(NoData, "instacart_server"),
     MCPToolResult(SomeData, "instacart_server")}

Hypothesis(t, p) == [source_type |-> t, prior_probability |-> p]
Observation(s, d, h) == [source |-> s, data |-> d, supports_hypothesis |-> h]

\* ---------------------------------------------------------------- guardrails
SafetyCheckResult(safe, hasValue, v, reason) ==
    [is_safe |-> safe, has_value |-> hasValue, hrv_value |-> v,
     escalation_reason |-> reason]

EscalationReason ==
    "Critically low heart rate variability detected. Immediate rest intervention recommended."

check_hrv_safety_strict(pulse_data) ==
    IF ~pulse_data.present
    THEN SafetyCheckResult(FALSE, FALSE, 0, EscalationReason)
    ELSE IF ~pulse_data.has_hrv
    THEN SafetyCheckResult(TRUE, FALSE, 0, NoneStr)
    ELSE IF pulse_data.hrv_ms < HRV_SAFETY_THRESHOLD_MS
    THEN SafetyCheckResult(FALSE, TRUE, pulse_data.hrv_ms, EscalationReason)
    ELSE SafetyCheckResult(TRUE, TRUE, pulse_data.hrv_ms, NoneStr)

check_hrv_safety_gt(pulse_data) ==
    IF ~pulse_data.present
    THEN SafetyCheckResult(TRUE, FALSE, 0, NoneStr)
    ELSE IF ~pulse_data.has_hrv
    THEN SafetyCheckResult(TRUE, FALSE, 0, NoneStr)
    ELSE IF pulse_data.hrv_ms > HRV_SAFETY_THRESHOLD_MS
    THEN SafetyCheckResult(FALSE, TRUE, pulse_data.hrv_ms, EscalationReason)
    ELSE SafetyCheckResult(TRUE, TRUE, pulse_data.hrv_ms, NoneStr)

check_hrv_safety_le(pulse_data) ==
    IF ~pulse_data.present
    THEN SafetyCheckResult(TRUE, FALSE, 0, NoneStr)
    ELSE IF ~pulse_data.has_hrv
    THEN SafetyCheckResult(TRUE, FALSE, 0, NoneStr)
    ELSE IF pulse_data.hrv_ms <= HRV_SAFETY_THRESHOLD_MS
    THEN SafetyCheckResult(FALSE, TRUE, pulse_data.hrv_ms, EscalationReason)
    ELSE SafetyCheckResult(TRUE, TRUE, pulse_data.hrv_ms, NoneStr)

check_hrv_safety(pulse_data) ==
    IF ~pulse_data.present
    THEN SafetyCheckResult(TRUE, FALSE, 0, NoneStr)
    ELSE IF ~pulse_data.has_hrv
    THEN SafetyCheckResult(TRUE, FALSE, 0, NoneStr)
    ELSE IF pulse_data.hrv_ms < HRV_SAFETY_THRESHOLD_MS
    THEN SafetyCheckResult(FALSE, TRUE, pulse_data.hrv_ms, EscalationReason)
    ELSE SafetyCheckResult(TRUE, TRUE, pulse_data.hrv_ms, NoneStr)

\* set of the source names whose result carries data = None
apply_hallucination_guard(adapter_results) ==
    {s \in DOMAIN adapter_results : ~adapter_results[s].data.present}

\* ---------------------------------------------------------------- helpers
Min(a, b) == IF a < b THEN a ELSE b

\* Python truthiness of a number (`if val and ...`)
Truthy(v) == v # 0

RECURSIVE SumSeq(_)
SumSeq(q) == IF q = <<>> THEN 0 ELSE Head(q) + SumSeq(Tail(q))

\* round(num/den, 3) in thousandths
Round3(num, den) == (2000 * num + den) \div (2 * den)

\* ---------------------------------------------------------------- agent
\* CausalAgent._generate_hypotheses
_generate_hypotheses_digital_default(glucose_result) ==
    LET has_value == glucose_result.data.present
        glucose_value == glucose_result.data.value_mg_dl
    IN  IF has_value /\ Truthy(glucose_value) /\ glucose_value > 140
        THEN <<Hypothesis("metabolic", 600), Hypothesis("digital", 300)>>
        ELSE <<Hypothesis("digital", 400), Hypothesis("metabolic", 400)>>

_generate_hypotheses(glucose_result) ==
    LET has_value == glucose_result.data.present
        glucose_value == glucose_result.data.value_mg_dl
    IN  IF has_value /\ Truthy(glucose_value) /\ glucose_value > 140
        THEN <<Hypothesis("metabolic", 600), Hypothesis("digital", 300)>>
        ELSE <<Hypothesis("metabolic", 400), Hypothesis("digital", 400)>>

\* sorted(hypotheses, key=prior_probability, reverse=True): stable
RECURSIVE InsertByPrior(_, _)
InsertByPrior(sorted, h) ==
    IF sorted = <<>> THEN <<h>>
    ELSE IF Head(sorted).prior_probability >= h.prior_probability
         THEN <<Head(sorted)>> \o InsertByPrior(Tail(sorted), h)
         ELSE <<h>> \o sorted

RECURSIVE SortedHyp(_)
SortedHyp(hyps) ==
    IF hyps = <<>> THEN <<>>
    ELSE InsertByPrior(SortedHyp(SubSeq(hyps, 1, Len(hyps) - 1)), hyps[Len(hyps)])

\* One pass of the body of the `for hyp in sorted_hyp` loop of _probe.
\* acc = [observations, results, calls]; rot / ins are what the adapters
\* return if they are called.
AlreadyQueriedNever(source, existing_results) == FALSE

\* `"<source>" not in existing_results` is false
AlreadyQueried(source, existing_results) == source \in DOMAIN existing_results

ProbeHyp(acc, hyp, rot, ins) ==
    LET a1 == IF hyp.source_type = "metabolic"
                  /\ ~AlreadyQueried("rotimatic_server", acc.results)
              THEN [observations |->
                        Append(acc.observations,
                               Observation("rotimatic_server", rot.data, "metabolic")),
                    results |-> acc.results @@ ("rotimatic_server" :> rot),
                    calls |-> Append(acc.calls, "rotimatic_server")]
              ELSE acc
    IN  IF hyp.source_type \in {"metabolic", "digital"}
           /\ ~AlreadyQueried("instacart_server", a1.results)
        THEN [observations |->
                  Append(a1.observations,
                         Observation("instacart_server", ins.data, "metabolic")),
              results |-> a1.results @@ ("instacart_server" :> ins),
              calls |-> Append(a1.calls, "instacart_server")]
        ELSE a1

RECURSIVE ProbeLoop(_, _, _, _)
ProbeLoop(acc, hyps, rot, ins) ==
    IF hyps = <<>> THEN acc
    ELSE ProbeLoop(ProbeHyp(acc, Head(hyps), rot, ins), Tail(hyps), rot, ins)

\* CausalAgent._probe: new observations, the (mutated) result map, calls made
_probe(hypotheses, existing_results, rot, ins) ==
    ProbeLoop([observations |-> <<>>, results |-> existing_results, calls |-> <<>>],
              SortedHyp(hypotheses), rot, ins)

\* the glucose boost of _compute_confidence
GlucoseBoost(observations) ==
    LET glucose_obs == SelectSeq(observations,
                           LAMBDA o : o.source = "cgm_stelo" /\ o.data.present)
    IN  IF glucose_obs # <<>>
        THEN LET val == glucose_obs[1].data.value_mg_dl
             IN  IF Truthy(val) /\ (val > 160 \/ val < 70) THEN 200 ELSE 0
        ELSE 0

\* CausalAgent._compute_confidence
_compute_confidence(hypotheses, observations) ==
    IF observations = <<>> THEN 0
    ELSE LET data_sources ==
                 Cardinality({i \in DOMAIN observations : observations[i].data.present})
             total == Len(observations)
             coverage600 == (data_sources * 600) \div total
         IN  Min(coverage600 + 300 + GlucoseBoost(observations), 1000)

\* the loop exit test of query
ShouldStopInverted(confidence) == confidence < CONFIDENCE_THRESHOLD

ShouldStop(confidence) == confidence >= CONFIDENCE_THRESHOLD

\* --- _infer ---------------------------------------------------------
\* the three tests of the inner loop of _infer: does obs add 0.3 to hyp
CountsIgnoringGuard(obs, hyp, excluded_sources) ==
    obs.supports_hypothesis = hyp.source_type

Counts(obs, hyp, excluded_sources) ==
    /\ obs.data.present
    /\ obs.source \notin excluded_sources
    /\ obs.supports_hypothesis = hyp.source_type

RECURSIVE ScoreLoop(_, _, _, _)
ScoreLoop(score, hyp, observations, excluded_sources) ==
    IF observations = <<>> THEN score
    ELSE ScoreLoop(IF Counts(Head(observations), hyp, excluded_sources)
                   THEN score + 300 ELSE score,
                   hyp, Tail(observations), excluded_sources)

\* score of one hypothesis: prior * 0.2, plus 0.3 per counted observation
HypScore(hyp, observations, excluded_sources) ==
    ScoreLoop((hyp.prior_probability * 2) \div 10, hyp, observations, excluded_sources)

\* scores: dict[str, float] in insertion order, as a sequence of entries
RECURSIVE ScoresOf(_, _, _)
ScoresOf(hypotheses, observations, excluded_sources) ==
    IF hypotheses = <<>> THEN <<>>
    ELSE <<[key |-> Head(hypotheses).source_type,
            score |-> HypScore(Head(hypotheses), observations, excluded_sources)]>>
         \o ScoresOf(Tail(hypotheses), observations, excluded_sources)

\* max(scores, key=scores.get): the first entry that no entry exceeds
RECURSIVE MaxKeyLast(_, _)
MaxKeyLast(best, rest) ==
    IF rest = <<>> THEN best
    ELSE MaxKeyLast(IF Head(rest).score >= best.score THEN Head(rest) ELSE best,
                    Tail(rest))

RECURSIVE MaxKey(_, _)
MaxKey(best, rest) ==
    IF rest = <<>> THEN best
    ELSE MaxKey(IF Head(rest).score > best.score THEN Head(rest) ELSE best,
                Tail(rest))

TotalScore(scores) == SumSeq([i \in DOMAIN scores |-> scores[i].score])

\* confidence = round(scores[conclusion] / total_score, 3)
InferConfidenceTruncated(best, scores) ==
    IF TotalScore(scores) > 0
    THEN (1000 * best.score) \div TotalScore(scores)
    ELSE 0

InferConfidence(best, scores) ==
    IF TotalScore(scores) > 0 THEN Round3(best.score, TotalScore(scores)) ELSE 0

\* CausalAgent._build_causal_chain
_build_causal_chain(conclusion) ==
    IF conclusion = "metabolic"
    THEN <<[from |-> "meal", to |-> "glucose", edge |-> "meal_to_glucose"],
           [from |-> "glucose", to |-> "physiological", edge |-> "glucose_to_hrv"]>>
    ELSE IF conclusion = "digital"
    THEN <<[from |-> "behavioral", to |-> "physiological", edge |-> "behavior_to_hrv"]>>
    ELSE <<>>

\* the 'Data from' list of _generate_narrative
DataSources(observations, excluded_sources) ==
    LET kept == SelectSeq(observations,
                    LAMBDA o : o.data.present /\ o.source \notin excluded_sources)
    IN  [i \in DOMAIN kept |-> kept[i].source]

\* CausalAgent._generate_narrative: the parts joined into the text
_generate_narrative(symptom_, conclusion, observations, excluded_sources) ==
    [parts |->
        <<"Investigating symptom">>
        \o (IF DataSources(observations, excluded_sources) # <<>>
            THEN <<"Data from">> ELSE <<>>)
        \o (IF excluded_sources # {} THEN <<"No data from">> ELSE <<>>)
        \o (IF conclusion = "metabolic" THEN <<"Evidence points to a metabolic pathway">>
            ELSE IF conclusion = "digital" THEN <<"Evidence points to a digital pathway">>
            ELSE <<"Insufficient evidence">>)
        \o <<"Confidence">>,
     symptom |-> symptom_,
     data_from |-> DataSources(observations, excluded_sources),
     no_data_from |-> excluded_sources]

RestNarrative ==
    [parts |-> <<"Safety bypass activated", "All reasoning paused",
                 "Immediate rest intervention recommended">>,
     symptom |-> NoneStr, data_from |-> <<>>, no_data_from |-> {}]

CausalExplanation(symptom_, conclusion_, confidence_, chain, narrative_, bypass, escalated) ==
    [symptom |-> symptom_, conclusion |-> conclusion_, confidence |-> confidence_,
     causal_chain |-> chain, narrative |-> narrative_,
     safety_bypass |-> bypass, escalation_triggered |-> escalated]

NoExplanation ==
    CausalExplanation(NoneStr, NoneStr, 0, <<>>,
        [parts |-> <<>>, symptom |-> NoneStr, data_from |-> <<>>, no_data_from |-> {}],
        FALSE, FALSE)

\* CausalAgent._infer
_infer(symptom_, hypotheses, observations, excluded_sources) ==
    LET scores == ScoresOf(hypotheses, observations, excluded_sources)
        best == MaxKey(Head(scores), Tail(scores))
        conclusion == IF scores = <<>> THEN NoneStr ELSE best.key
        conf == IF scores = <<>> THEN 0 ELSE InferConfidence(best, scores)
    IN  CausalExplanation(symptom_, conclusion, conf,
            _build_causal_chain(conclusion),
            _generate_narrative(symptom_, conclusion, observations, excluded_sources),
            FALSE, FALSE)

\* --- traces ---------------------------------------------------------
\* observations_json of _persist_trace
SerializeObservations(observations) ==
    [i \in DOMAIN observations |->
        [source |-> observations[i].source,
         has_data |-> observations[i].data.present,
         supports |-> observations[i].supports_hypothesis]]

\* hypotheses_json of _persist_trace
SerializeHypotheses(hypotheses) ==
    [i \in DOMAIN hypotheses |->
        [type |-> hypotheses[i].source_type, prior |-> hypotheses[i].prior_probability]]

\* observations_json of _handle_safety_bypass
BypassObservations(safety_) ==
    <<[source |-> "apple_health", hrv_ms |-> safety_.hrv_value, safety_bypass |-> TRUE]>>

ReasoningTrace(q, symptom_, phase_, hyps, obs, conclusion_, confidence_, chain, narrative_) ==
    [query |-> q, symptom |-> symptom_, phase |-> phase_, hypotheses_json |-> hyps,
     observations_json |-> obs, conclusion |-> conclusion_,
     confidence |-> confidence_, causal_chain_json |-> chain,
     narrative |-> narrative_]

\* narrative of the bypass trace: safety.escalation_reason
ReasonNarrative(safety_) ==
    [parts |-> <<safety_.escalation_reason>>, symptom |-> NoneStr,
     data_from |-> <<>>, no_data_from |-> {}]

\* session.commit(): the flushed traces become durable
CommitDropped(db_, pending_) == db_

Commit(db_, pending_) == db_ \o pending_

\* the branch taken on the safety result in query
AfterSafetyIgnored(s) == "hypothesis"

AfterSafety(s) == IF ~s.is_safe THEN "bypass_save" ELSE "hypothesis"

\* outcomes of the escalation attempt of _handle_safety_bypass:
\*   import_error  the import of twilio_service raises (caught)
\*   unconfigured  is_configured is false, nothing is sent
\*   sent          send_escalation_sms returns status 'sent'
\*   rejected      send_escalation_sms returns status 'rejected'
EscalationOutcomes == {"import_error", "unconfigured", "sent", "rejected"}

\* where query continues after the escalation attempt: `except Exception`
\* swallows a raising attempt
AfterEscalationUncaught(outcome) ==
    IF outcome = "import_error" THEN "raised" ELSE "bypass_commit"

AfterEscalation(outcome) == "bypass_commit"

\* escalation_triggered: set once send_escalation_sms has returned
EscalationTriggered(outcome) == outcome \in {"sent", "rejected"}

\* ---------------------------------------------------------------- state
VARIABLES
    pc,               \* position of the running query ("idle" before the first)
    nQueries,         \* number of query() calls started; id of the running one
    symptom,          \* argument of the running query
    pulse_result,     \* local pulse_result
    glucose_result,   \* local glucose_result
    safety,           \* <<>> before check_hrv_safety ran, <<result>> after
    hypotheses,       \* local hypotheses
    observations,     \* local observations
    adapter_results,  \* local adapter_results (dict: source -> MCPToolResult)
    iteration,        \* number of probe iterations completed
    confidences,      \* confidence computed at the end of each iteration
    excluded_sources, \* result of apply_hallucination_guard
    scores,           \* scores dict of _infer
    escalation,       \* outcome of the escalation attempt ("none" before)
    explanation,      \* the CausalExplanation built by the query
    pending,          \* traces flushed in the session, not committed
    db,               \* committed reasoning_traces rows
    returned,         \* explanations returned to callers, with the query id
    phases,           \* phases the running query has entered
    calls             \* adapter calls the running query has made

agentVars == <<pc, nQueries, symptom, pulse_result, glucose_result, safety, hypotheses,
               observations, adapter_results, iteration, confidences, excluded_sources,
               scores, escalation, explanation, pending, db, returned, phases, calls>>

\* --- the other components: each has its own specification below and stays
\* --- idle while the agent runs
VARIABLES
    adjacency,        \* CausalDAG._adjacency: source node id -> list of its edges
    add_count,        \* number of add_edge calls made
    add_arg,          \* argument of the last add_edge call
    add_ret,          \* value returned by the last add_edge call
    trace_arg,        \* arguments of the trace_paths call, once made
    trace_ret,        \* list of paths returned by that call
    cls_in,           \* arguments of the last glucose classifier call
    cls_out,          \* its result
    debt_in,          \* meals passed to the last compute_metabolic_debt call
    debt_out,         \* its result
    sms_in,           \* arguments of the last sanitize_for_sms call
    sms_out,          \* the message it built (its parts and its length)
    dig_in,           \* arguments of the last digital debt scorer call
    dig_out,          \* its result
    kitchen_states,   \* rows of the kitchen_states table, in insertion order
    fsm_pc,           \* per session: where its KitchenFSM call stands
    fsm_call,         \* per session: the call it is making
    fsm_current,      \* per session: the row get_current_state gave it (0: None)
    fsm_ret,          \* per session: outcome of its last finished call
    fsm_calls,        \* number of KitchenFSM calls started
    fsm_clock,        \* the latest time.time() value read, in ms
    q_requests,       \* per concurrent query: its symptom and the evidence it read
    q_frames,         \* the locals of the running query() calls, with their sessions
    q_db,             \* committed reasoning_traces rows, tagged with the session
    q_returned        \* explanations handed back to the callers

dagVars == <<adjacency, add_count, add_arg, add_ret, trace_arg, trace_ret>>
clsVars == <<cls_in, cls_out>>
debtVars == <<debt_in, debt_out>>
smsVars == <<sms_in, sms_out>>

digVars == <<dig_in, dig_out>>

fsmVars == <<kitchen_states, fsm_pc, fsm_call, fsm_current, fsm_ret, fsm_calls,
             fsm_clock>>

concVars == <<q_requests, q_frames, q_db, q_returned>>

\* what the steps of one component leave alone
nonAgentVars ==
    <<dagVars, clsVars, debtVars, smsVars, digVars, fsmVars, concVars>>
nonDagVars ==
    <<agentVars, clsVars, debtVars, smsVars, digVars, fsmVars, concVars>>
nonClsVars ==
    <<agentVars, dagVars, debtVars, smsVars, digVars, fsmVars, concVars>>
nonDebtVars ==
    <<agentVars, dagVars, clsVars, smsVars, digVars, fsmVars, concVars>>
nonSmsVars ==
    <<agentVars, dagVars, clsVars, debtVars, digVars, fsmVars, concVars>>
nonDigVars ==
    <<agentVars, dagVars, clsVars, debtVars, smsVars, fsmVars, concVars>>
nonFsmVars ==
    <<agentVars, dagVars, clsVars, debtVars, smsVars, digVars, concVars>>
nonConcVars ==
    <<agentVars, dagVars, clsVars, debtVars, smsVars, digVars, fsmVars>>

vars ==
    <<agentVars, dagVars, clsVars, debtVars, smsVars, digVars, fsmVars, concVars>>

NoCall == [fn |-> "none"]

DagInit ==
    /\ adjacency = [n \in {} |-> <<>>]
    /\ add_count = 0
    /\ add_arg = NoCall
    /\ add_ret = FALSE
    /\ trace_arg = NoCall
    /\ trace_ret = <<>>

ClsInit == cls_in = NoCall /\ cls_out = NoneStr

DebtInit == debt_in = NoCall /\ debt_out = 0

SmsInit == sms_in = NoCall /\ sms_out = NoCall

DigInit == dig_in = NoCall /\ dig_out = NoCall

\* the sessions that use a KitchenFSM at the same time (API requests and
\* polling loops each open their own)
FsmSessions == {"s1", "s2"}

FsmInit ==
    /\ kitchen_states = <<>>
    /\ fsm_pc = [s \in FsmSessions |-> "idle"]
    /\ fsm_call = [s \in FsmSessions |-> NoCall]
    /\ fsm_current = [s \in FsmSessions |-> 0]
    /\ fsm_ret = [s \in FsmSessions |-> NoneStr]
    /\ fsm_calls = 0
    /\ fsm_clock = 0

EmptyResults == [s \in {} |-> MCPToolResult(NoData, NoneStr)]

AgentInit ==
    /\ pc = "idle"
    /\ nQueries = 0
    /\ symptom = NoneStr
    /\ pulse_result = MCPToolResult(NoData, NoneStr)
    /\ glucose_result = MCPToolResult(NoData, NoneStr)
    /\ safety = <<>>
    /\ hypotheses = <<>>
    /\ observations = <<>>
    /\ adapter_results = EmptyResults
    /\ iteration = 0
    /\ confidences = <<>>
    /\ excluded_sources = {}
    /\ scores = <<>>
    /\ escalation = "none"
    /\ explanation = NoExplanation
    /\ pending = <<>>
    /\ db = <<>>
    /\ returned = <<>>
    /\ phases = <<>>
    /\ calls = <<>>

\* the POST /query requests served at the same time
Queries == {1, 2}

\* the locals of a query() call that has not been entered
IdleFrame ==
    [pc |-> "idle", symptom |-> NoneStr,
     pulse_result |-> MCPToolResult(NoData, NoneStr),
     glucose_result |-> MCPToolResult(NoData, NoneStr),
     safety |-> <<>>, hypotheses |-> <<>>, observations |-> <<>>,
     adapter_results |-> EmptyResults, iteration |-> 0, escalation |-> "none",
     explanation |-> NoExplanation, pending |-> <<>>]

\* what the adapters and the SMS service hold for a query before it asks
NoEvidence ==
    [pulse |-> MCPToolResult(NoData, NoneStr), glucose |-> MCPToolResult(NoData, NoneStr),
     rot |-> MCPToolResult(NoData, NoneStr), ins |-> MCPToolResult(NoData, NoneStr),
     escalation |-> "none"]

ConcInit ==
    /\ q_requests = [q \in Queries |-> NoCall]
    /\ q_frames = [q \in Queries |-> IdleFrame]
    /\ q_db = <<>>
    /\ q_returned = <<>>

Init ==
    /\ AgentInit /\ DagInit /\ ClsInit /\ DebtInit /\ SmsInit /\ DigInit /\ FsmInit
    /\ ConcInit

\* a caller invokes query(symptom) on a fresh agent and session
StartQuery(s) ==
    /\ pc \in {"idle", "done", "raised"}
    /\ nQueries < MaxQueries
    /\ pc' = "pulse"
    /\ nQueries' = nQueries + 1
    /\ symptom' = s
    /\ pulse_result' = MCPToolResult(NoData, NoneStr)
    /\ glucose_result' = MCPToolResult(NoData, NoneStr)
    /\ safety' = <<>>
    /\ hypotheses' = <<>>
    /\ observations' = <<>>
    /\ adapter_results' = EmptyResults
    /\ iteration' = 0
    /\ confidences' = <<>>
    /\ excluded_sources' = {}
    /\ scores' = <<>>
    /\ escalation' = "none"
    /\ explanation' = NoExplanation
    /\ pending' = <<>>
    /\ phases' = <<"PULSE">>
    /\ calls' = <<>>
    /\ UNCHANGED nonAgentVars
    /\ UNCHANGED <<db, returned>>

\* pulse_result = await self.apple_health.get_pulse()
GetPulse ==
    /\ pc = "pulse"
    /\ \E r \in get_pulse_results : pulse_result' = r
    /\ calls' = Append(calls, "apple_health")
    /\ pc' = "glucose"
    /\ UNCHANGED nonAgentVars
    /\ UNCHANGED <<nQueries, symptom, glucose_result, safety, hypotheses, observations,
                   adapter_results, iteration, confidences, excluded_sources, scores,
                   escalation, explanation, pending, db, returned, phases>>

\* glucose_result = await self.cgm.get_current_glucose()
GetGlucose ==
    /\ pc = "glucose"
    /\ \E r \in get_current_glucose_results : glucose_result' = r
    /\ calls' = Append(calls, "cgm_stelo")
    /\ pc' = "safety"
    /\ UNCHANGED nonAgentVars
    /\ UNCHANGED <<nQueries, symptom, pulse_result, safety, hypotheses, observations,
                   adapter_results, iteration, confidences, excluded_sources, scores,
                   escalation, explanation, pending, db, returned, phases>>

\* safety = check_hrv_safety(pulse_result.data); if not safety.is_safe: bypass
SafetyCheck ==
    /\ pc = "safety"
    /\ LET s == check_hrv_safety(pulse_result.data)
       IN  /\ safety' = <<s>>
           /\ pc' = AfterSafety(s)
           /\ phases' = IF AfterSafety(s) = "bypass_save"
                        THEN Append(phases, "SAFETY_BYPASS") ELSE phases
    /\ UNCHANGED nonAgentVars
    /\ UNCHANGED <<nQueries, symptom, pulse_result, glucose_result, hypotheses,
                   observations, adapter_results, iteration, confidences,
                   excluded_sources, scores, escalation, explanation, pending, db,
                   returned, calls>>

\* the two pulse observations, _generate_hypotheses, the initial adapter_results
GenerateHypotheses ==
    /\ pc = "hypothesis"
    /\ observations' = <<Observation("apple_health", pulse_result.data, NoneStr),
                         Observation("cgm_stelo", glucose_result.data, NoneStr)>>
    /\ hypotheses' = _generate_hypotheses(glucose_result)
    /\ adapter_results' = ("apple_health" :> pulse_result) @@ ("cgm_stelo" :> glucose_result)
    /\ phases' = Append(phases, "HYPOTHESIS")
    /\ pc' = "probe"
    /\ UNCHANGED nonAgentVars
    /\ UNCHANGED <<nQueries, symptom, pulse_result, glucose_result, safety, iteration,
                   confidences, excluded_sources, scores, escalation, explanation,
                   pending, db, returned, calls>>

\* `for obs in new_observations: if obs.source not in adapter_results: ...`
RECURSIVE UpdateResults(_, _)
UpdateResults(results, new_observations) ==
    IF new_observations = <<>> THEN results
    ELSE LET obs == Head(new_observations)
         IN  UpdateResults(
                 IF obs.source \notin DOMAIN results
                 THEN results @@ (obs.source :> MCPToolResult(obs.data, obs.source))
                 ELSE results,
                 Tail(new_observations))

\* would _probe call an adapter in the coming iteration
ProbeWillCall ==
    \E rot \in get_last_session_results, ins \in get_recent_receipts_results :
        _probe(hypotheses, adapter_results, rot, ins).calls # <<>>

\* one iteration of `for iteration in range(MAX_ITERATIONS)`
ProbeIteration ==
    /\ pc = "probe"
    /\ iteration < MAX_ITERATIONS
    /\ \E rot \in get_last_session_results, ins \in get_recent_receipts_results :
        LET p == _probe(hypotheses, adapter_results, rot, ins)
            obs == observations \o p.observations
            confidence == _compute_confidence(hypotheses, obs)
        IN  /\ observations' = obs
            /\ adapter_results' = UpdateResults(p.results, p.observations)
            /\ calls' = calls \o p.calls
            /\ confidences' = Append(confidences, confidence)
            /\ iteration' = iteration + 1
            /\ pc' = IF ShouldStop(confidence) \/ iteration + 1 >= MAX_ITERATIONS
                     THEN "infer" ELSE "probe"
    /\ phases' = IF iteration = 0 THEN Append(phases, "PROBE") ELSE phases
    /\ UNCHANGED nonAgentVars
    /\ UNCHANGED <<nQueries, symptom, pulse_result, glucose_result, safety, hypotheses,
                   excluded_sources, scores, escalation, explanation, pending, db,
                   returned>>

\* excluded_sources = apply_hallucination_guard(...); explanation = self._infer(...)
Infer ==
    /\ pc = "infer"
    /\ LET excluded == apply_hallucination_guard(adapter_results)
       IN  /\ excluded_sources' = excluded
           /\ scores' = ScoresOf(hypotheses, observations, excluded)
           /\ explanation' = _infer(symptom, hypotheses, observations, excluded)
    /\ phases' = Append(phases, "INFERENCE")
    /\ pc' = "persist_save"
    /\ UNCHANGED nonAgentVars
    /\ UNCHANGED <<nQueries, symptom, pulse_result, glucose_result, safety, hypotheses,
                   observations, adapter_results, iteration, confidences, escalation,
                   pending, db, returned, calls>>

\* _persist_trace up to `await self.state_store.save_trace(trace)`
PersistSave ==
    /\ pc = "persist_save"
    /\ pending' = Append(pending,
           ReasoningTrace(nQueries, explanation.symptom, "inference",
               SerializeHypotheses(hypotheses), SerializeObservations(observations),
               explanation.conclusion, explanation.confidence,
               explanation.causal_chain, explanation.narrative))
    /\ pc' = "persist_commit"
    /\ UNCHANGED nonAgentVars
    /\ UNCHANGED <<nQueries, symptom, pulse_result, glucose_result, safety, hypotheses,
                   observations, adapter_results, iteration, confidences,
                   excluded_sources, scores, escalation, explanation, db, returned,
                   phases, calls>>

\* `await self.session.commit()` of _persist_trace
PersistCommit ==
    /\ pc = "persist_commit"
    /\ db' = Commit(db, pending)
    /\ pending' = <<>>
    /\ pc' = "return"
    /\ UNCHANGED nonAgentVars
    /\ UNCHANGED <<nQueries, symptom, pulse_result, glucose_result, safety, hypotheses,
                   observations, adapter_results, iteration, confidences,
                   excluded_sources, scores, escalation, explanation, returned,
                   phases, calls>>

\* _handle_safety_bypass up to `await self.state_store.save_trace(trace)`
BypassSave ==
    /\ pc = "bypass_save"
    /\ pending' = Append(pending,
           ReasoningTrace(nQueries, symptom, "pulse", <<>>,
               BypassObservations(safety[1]), NoneStr, 1000, <<>>,
               ReasonNarrative(safety[1])))
    /\ pc' = "bypass_escalate"
    /\ UNCHANGED nonAgentVars
    /\ UNCHANGED <<nQueries, symptom, pulse_result, glucose_result, safety, hypotheses,
                   observations, adapter_results, iteration, confidences,
                   excluded_sources, scores, escalation, explanation, db, returned,
                   phases, calls>>

\* the try / except around twilio_service.send_escalation_sms
BypassEscalate ==
    /\ pc = "bypass_escalate"
    /\ \E outcome \in EscalationOutcomes :
        /\ escalation' = outcome
        /\ pc' = AfterEscalation(outcome)
    /\ UNCHANGED nonAgentVars
    /\ UNCHANGED <<nQueries, symptom, pulse_result, glucose_result, safety, hypotheses,
                   observations, adapter_results, iteration, confidences,
                   excluded_sources, scores, explanation, pending, db, returned,
                   phases, calls>>

\* `await self.session.commit()` of _handle_safety_bypass and the explanation
BypassCommit ==
    /\ pc = "bypass_commit"
    /\ db' = Commit(db, pending)
    /\ pending' = <<>>
    /\ explanation' = CausalExplanation(symptom, NoneStr, 1000, <<>>, RestNarrative,
                          TRUE, EscalationTriggered(escalation))
    /\ pc' = "return"
    /\ UNCHANGED nonAgentVars
    /\ UNCHANGED <<nQueries, symptom, pulse_result, glucose_result, safety, hypotheses,
                   observations, adapter_results, iteration, confidences,
                   excluded_sources, scores, escalation, returned, phases, calls>>

\* `return explanation`
Return ==
    /\ pc = "return"
    /\ returned' = Append(returned, [query |-> nQueries, explanation |-> explanation])
    /\ pc' = "done"
    /\ UNCHANGED nonAgentVars
    /\ UNCHANGED <<nQueries, symptom, pulse_result, glucose_result, safety, hypotheses,
                   observations, adapter_results, iteration, confidences,
                   excluded_sources, scores, escalation, explanation, pending, db,
                   phases, calls>>

\* An awaited database call raises (execute, flush or commit fails): the
\* exception leaves query(), the session is closed and its pending rows are lost.
Raise ==
    /\ \/ pc \in {"pulse", "glucose", "persist_save", "persist_commit",
                  "bypass_save", "bypass_commit"}
       \/ pc = "probe" /\ ProbeWillCall
    /\ pc' = "raised"
    /\ pending' = <<>>
    /\ UNCHANGED nonAgentVars
    /\ UNCHANGED <<nQueries, symptom, pulse_result, glucose_result, safety, hypotheses,
                   observations, adapter_results, iteration, confidences,
                   excluded_sources, scores, escalation, explanation, db, returned,
                   phases, calls>>

Next ==
    \/ \E s \in Symptoms : StartQuery(s)
    \/ GetPulse
    \/ GetGlucose
    \/ SafetyCheck
    \/ GenerateHypotheses
    \/ ProbeIteration
    \/ Infer
    \/ PersistSave
    \/ PersistCommit
    \/ BypassSave
    \/ BypassEscalate
    \/ BypassCommit
    \/ Return
    \/ Raise

Spec == Init /\ [][Next]_vars

\* a step of the program in which no awaited call raises
NextNoOutage ==
    \/ \E s \in Symptoms : StartQuery(s)
    \/ GetPulse
    \/ GetGlucose
    \/ SafetyCheck
    \/ GenerateHypotheses
    \/ ProbeIteration
    \/ Infer
    \/ PersistSave
    \/ PersistCommit
    \/ BypassSave
    \/ BypassEscalate
    \/ BypassCommit
    \/ Return

\* ---------------------------------------------------------------- properties
Range(q) == {q[i] : i \in DOMAIN q}

IsPrefix(a, b) == Len(a) <= Len(b) /\ a = SubSeq(b, 1, Len(a))

BypassSequence == <<"PULSE", "SAFETY_BYPASS">>
InferenceSequence == <<"PULSE", "HYPOTHESIS", "PROBE", "INFERENCE">>

\* the latest pulse data carries hrv_ms < 20.0
LowHrv ==
    /\ pulse_result.data.present
    /\ pulse_result.data.has_hrv
    /\ pulse_result.data.hrv_ms < 20

SafetyChecked == safety # <<>>
Unsafe == SafetyChecked /\ ~safety[1].is_safe

\* _infer has run in the running query
Inferred == scores # <<>>

\* C1: whatever the symptom and the glucose, rotimatic and instacart evidence,
\* a query whose pulse data carries hrv_ms < 20 never enters the hypothesis,
\* probe or inference steps, and the explanation it returns has
\* safety_bypass = true, confidence = 1.0 and the non-empty rest-intervention
\* narrative.
C1_LowHrvReturnsBypass ==
    LowHrv =>
        /\ pc \notin {"hypothesis", "probe", "infer", "persist_save", "persist_commit"}
        /\ pc \in {"return", "done"} =>
            /\ explanation.symptom = symptom
            /\ explanation.safety_bypass
            /\ explanation.confidence = 1000
            /\ explanation.narrative.parts # <<>>
            /\ "Immediate rest intervention recommended"
                   \in Range(explanation.narrative.parts)
        /\ pc = "done" => returned[Len(returned)].explanation = explanation

C1_Witness ==
    /\ pc = "done"
    /\ LowHrv
    /\ glucose_result.data.present
    /\ glucose_result.data.value_mg_dl > 160
    /\ returned[Len(returned)].explanation.safety_bypass

\* C2: the phases a query has entered always form a prefix of
\* PULSE, SAFETY_BYPASS or of PULSE, HYPOTHESIS, PROBE, INFERENCE, and a
\* returned query has gone through exactly one of the two; no hypothesis exists
\* and no probe source has been called before the safety check has passed, and
\* after an unsafe check the query has no hypothesis, no probe call, no probe
\* iteration, no hallucination guard result and no inference.
C2_PhaseOrder ==
    /\ IsPrefix(phases, BypassSequence) \/ IsPrefix(phases, InferenceSequence)
    /\ pc \in {"return", "done"} => phases \in {BypassSequence, InferenceSequence}
    /\ (hypotheses # <<>> \/ Range(calls) \cap {"rotimatic_server", "instacart_server"} # {})
           => SafetyChecked /\ safety[1].is_safe
    /\ Unsafe =>
        /\ hypotheses = <<>>
        /\ observations = <<>>
        /\ Range(calls) \subseteq {"apple_health", "cgm_stelo"}
        /\ iteration = 0
        /\ confidences = <<>>
        /\ excluded_sources = {}
        /\ scores = <<>>
        /\ "HYPOTHESIS" \notin Range(phases)
        /\ "PROBE" \notin Range(phases)
        /\ "INFERENCE" \notin Range(phases)
        /\ pc \in {"bypass_save", "bypass_escalate", "bypass_commit", "return",
                   "done", "raised"}

C2_Witness ==
    /\ pc = "done"
    /\ Unsafe
    /\ phases = BypassSequence
    /\ calls = <<"apple_health", "cgm_stelo">>

\* C3: check_hrv_safety answers is_safe = false exactly when pulse data is
\* present, holds an hrv_ms value and the value is below 20 (20 itself is
\* safe); without data or without hrv_ms the result is safe with no hrv_value;
\* a present value is echoed; an escalation reason is set exactly when unsafe.
C3_SafetyIff ==
    SafetyChecked =>
        LET d == pulse_result.data
            r == safety[1]
        IN  /\ ~r.is_safe <=> (d.present /\ d.has_hrv /\ d.hrv_ms < 20)
            /\ (d.present /\ d.has_hrv /\ d.hrv_ms = 20) => r.is_safe
            /\ (~d.present \/ ~d.has_hrv) => (r.is_safe /\ ~r.has_value)
            /\ (d.present /\ d.has_hrv) => (r.has_value /\ r.hrv_value = d.hrv_ms)
            /\ (r.escalation_reason # "None") <=> ~r.is_safe

C3_Witness ==
    /\ SafetyChecked
    /\ pulse_result.data.has_hrv
    /\ pulse_result.data.hrv_ms = 20
    /\ safety[1].is_safe
    /\ safety[1].escalation_reason = "None"

\* C4: a non-bypass query runs between 1 and 3 probe iterations; every
\* iteration but the last ended with confidence < 0.7, the loop is left at the
\* first iteration whose confidence is >= 0.7, and otherwise after exactly 3.
C4_ProbeLoopBound ==
    /\ Len(confidences) = iteration
    /\ iteration <= 3
    /\ \A i \in 1..(iteration - 1) : confidences[i] < 700
    /\ pc = "probe" => (iteration < 3 /\ \A i \in 1..iteration : confidences[i] < 700)
    /\ (pc \in {"infer", "persist_save", "persist_commit"} \/ Inferred) =>
        /\ iteration >= 1
        /\ confidences[iteration] >= 700 \/ iteration = 3

C4_Witness ==
    /\ pc = "done"
    /\ Inferred
    /\ iteration = 3
    /\ confidences[3] < 700

\* C5: after inference, a source whose adapter returned data = None adds
\* nothing to any hypothesis score (each score is the prior term plus 0.3 per
\* supporting observation of the other sources that has data), is not in the
\* 'Data from' list of the narrative and is in its 'No data from' list.
C5_NoneSourceNeverBlamed ==
    Inferred =>
        \A src \in DOMAIN adapter_results :
            ~adapter_results[src].data.present =>
                /\ src \notin Range(explanation.narrative.data_from)
                /\ src \in explanation.narrative.no_data_from
                /\ \A i \in DOMAIN scores :
                    scores[i].score =
                        (hypotheses[i].prior_probability * 2) \div 10
                        + 300 * Cardinality(
                            {j \in DOMAIN observations :
                                /\ observations[j].source # src
                                /\ observations[j].data.present
                                /\ observations[j].supports_hypothesis = scores[i].key})

C5_Witness ==
    /\ Inferred
    /\ ~adapter_results["rotimatic_server"].data.present
    /\ adapter_results["instacart_server"].data.present
    /\ "rotimatic_server" \in explanation.narrative.no_data_from
    /\ "instacart_server" \in Range(explanation.narrative.data_from)

\* score of hypothesis i as the text states it
StatedScore(i) ==
    (hypotheses[i].prior_probability * 2) \div 10
    + 300 * Cardinality(
        {j \in DOMAIN observations :
            /\ observations[j].data.present
            /\ observations[j].source \notin excluded_sources
            /\ observations[j].supports_hypothesis = hypotheses[i].source_type})

\* C6: the conclusion of the inference is a hypothesis whose score (prior * 0.2
\* plus 0.3 per supporting, non-excluded observation with data) no other
\* hypothesis exceeds, and it is metabolic when metabolic and digital tie.
C6_ArgMaxMetabolicFirst ==
    Inferred =>
        LET m == CHOOSE i \in DOMAIN hypotheses : hypotheses[i].source_type = "metabolic"
            d == CHOOSE i \in DOMAIN hypotheses : hypotheses[i].source_type = "digital"
        IN  /\ \A i \in DOMAIN hypotheses : scores[i].score = StatedScore(i)
            /\ \E w \in DOMAIN hypotheses :
                /\ hypotheses[w].source_type = explanation.conclusion
                /\ \A i \in DOMAIN hypotheses : StatedScore(i) <= StatedScore(w)
            /\ StatedScore(m) = StatedScore(d) => explanation.conclusion = "metabolic"

C6_Witness ==
    /\ Inferred
    /\ scores[1].score = scores[2].score
    /\ explanation.conclusion = "metabolic"

WinningScore ==
    LET w == CHOOSE i \in DOMAIN scores : scores[i].key = explanation.conclusion
    IN  scores[w].score

\* C7 as stated: the returned confidence is exactly winning score / sum of scores.
C7_Original ==
    (Inferred /\ pc = "done") =>
        /\ explanation.confidence * TotalScore(scores) = 1000 * WinningScore
        /\ explanation.confidence >= 0
        /\ explanation.confidence <= 1000

\* C7 (amended): the confidence returned on the inference path is the winning
\* score divided by the sum of all scores, rounded to three decimals (0 when
\* the sum is 0), and lies in [0, 1].
C7_RoundedRatio ==
    (Inferred /\ pc = "done") =>
        LET c == returned[Len(returned)].explanation.confidence
            diff == c * TotalScore(scores) - 1000 * WinningScore
        IN  /\ TotalScore(scores) = 0 => c = 0
            /\ 2 * diff <= TotalScore(scores)
            /\ 2 * diff >= 0 - TotalScore(scores)
            /\ c >= 0
            /\ c <= 1000

C7_Witness ==
    /\ Inferred
    /\ pc = "done"
    /\ returned[Len(returned)].explanation.confidence * TotalScore(scores)
           # 1000 * WinningScore

\* C8 as stated: the confidence at the end of a probe iteration is
\* clamp(coverage * 0.6 + 0.3 + boost, 0, 1) with boost = 0.2 exactly when the
\* latest glucose value is > 160 or < 70.
C8_Original ==
    (pc \in {"probe", "infer"} /\ iteration >= 1) =>
        LET v == glucose_result.data.value_mg_dl
            boost == IF glucose_result.data.present /\ (v > 160 \/ v < 70)
                     THEN 200 ELSE 0
            coverage600 ==
                (Cardinality({j \in DOMAIN observations : observations[j].data.present})
                    * 600) \div Len(observations)
            raw == coverage600 + 300 + boost
            clamped == IF raw < 0 THEN 0 ELSE IF raw > 1000 THEN 1000 ELSE raw
        IN  /\ confidences[iteration] = clamped
            /\ confidences[iteration] >= 0
            /\ confidences[iteration] <= 1000

TracesOf(q) == {i \in DOMAIN db : db[i].query = q}

\* C9: every returned query has exactly one committed trace, carrying the
\* symptom it was asked about; every committed trace belongs to a query that
\* has returned or is at its return statement; a query that raised has none.
C9_TraceCommittedIffReturned ==
    /\ \A r \in DOMAIN returned :
        /\ Cardinality(TracesOf(returned[r].query)) = 1
        /\ \A i \in TracesOf(returned[r].query) :
               db[i].symptom = returned[r].explanation.symptom
    /\ pc = "done" =>
        /\ returned[Len(returned)].query = nQueries
        /\ returned[Len(returned)].explanation.symptom = symptom
    /\ \A i \in DOMAIN db :
        \/ \E r \in DOMAIN returned : returned[r].query = db[i].query
        \/ db[i].query = nQueries /\ pc = "return"
    /\ pc = "raised" => TracesOf(nQueries) = {}
    /\ pc \in {"idle", "done", "raised"} => pending = <<>>

C9_Witness ==
    /\ pc = "done"
    /\ Inferred
    /\ \E i \in DOMAIN db :
        /\ db[i].query = nQueries
        /\ db[i].phase = "inference"
        /\ db[i].symptom = symptom

\* C10 as stated: every persisted trace records its observations as
\* source / has_data / supports only, with no raw sensor value.
C10_Original ==
    \A t \in Range(db) \cup Range(pending) :
        \A k \in DOMAIN t.observations_json :
            DOMAIN t.observations_json[k] = {"source", "has_data", "supports"}

\* ------------------------------------------------- queries without evidence
AllSources == {"apple_health", "cgm_stelo", "rotimatic_server", "instacart_server"}

\* every source asked so far in the running query has returned data = None
NoDataSoFar ==
    /\ ~pulse_result.data.present
    /\ ~glucose_result.data.present
    /\ \A src \in DOMAIN adapter_results : ~adapter_results[src].data.present

\* every evidence source has been asked and has returned data = None
AllNone == NoDataSoFar /\ DOMAIN adapter_results = AllSources

Running == pc \notin {"idle", "done", "raised"}

ReturnedOf(q) == {r \in DOMAIN returned : returned[r].query = q}

\* C11: a query whose sources all return None is never stuck and never fails
\* on the missing data: at every point of it the next step of query() can be
\* taken, it never enters the safety bypass, and the explanation it returns has
\* safety_bypass = false, the symptom asked about, a confidence within [0, 1]
\* and a non-empty narrative.
C11_NoDataQueryReturns ==
    NoDataSoFar =>
        /\ Running => ENABLED NextNoOutage
        /\ pc \notin {"bypass_save", "bypass_escalate", "bypass_commit"}
        /\ pc \in {"return", "done"} =>
            /\ AllNone
            /\ ~explanation.safety_bypass
            /\ explanation.symptom = symptom
            /\ explanation.confidence >= 0
            /\ explanation.confidence <= 1000
            /\ explanation.narrative.parts # <<>>
        /\ pc = "done" =>
            /\ ReturnedOf(nQueries) # {}
            /\ returned[Len(returned)].explanation = explanation

C11_Witness ==
    /\ pc = "done"
    /\ AllNone
    /\ Inferred
    /\ ReturnedOf(nQueries) # {}
    /\ ~explanation.safety_bypass
    /\ explanation.narrative.no_data_from = AllSources

\* C12 as stated: a query is never aborted while it is fetching evidence; an
\* exception can leave query() only after inference or in the safety bypass.
C12_Original == pc = "raised" => (Inferred \/ Unsafe)

\* C13: whatever the outcome of the escalation attempt (import failure, missing
\* configuration, rejected or sent), query() continues with the commit of the
\* bypass trace, and the explanation it then returns is the rest intervention
\* with safety_bypass = true and confidence 1.0.
C13_EscalationNeverBlocks ==
    /\ [][pc = "bypass_escalate" =>
            /\ pc' = "bypass_commit"
            /\ escalation' \in EscalationOutcomes]_vars
    /\ [](pc = "bypass_commit" => ENABLED BypassCommit)
    /\ [](Unsafe /\ pc \in {"return", "done"} =>
            /\ explanation.safety_bypass
            /\ explanation.confidence = 1000
            /\ explanation.narrative = RestNarrative
            /\ (pc = "done" =>
                    \E r \in ReturnedOf(nQueries) :
                        returned[r].explanation = explanation))

C13_Witness ==
    /\ pc = "done"
    /\ escalation \in {"import_error", "rejected"}
    /\ explanation.safety_bypass
    /\ explanation.confidence = 1000
    /\ ReturnedOf(nQueries) # {}

\* ------------------------------------------------------------ sanitize_for_sms
\* Strings are modelled by their length; these are the lengths of the literals.
MaxSymptomLen == 300

SmsHeaderLen == 17          \* "VITA Health Alert"
SmsDetectedLen == 10        \* "Detected: "
SmsCauseLen == 14           \* "Likely cause: "
SmsConfidenceLen == 12      \* "Confidence: "
SmsFooterLen == 47          \* "Open VITA for full details and recommendations."

\* conclusions passed to sanitize_for_sms: None, the empty string, the three
\* labelled pathways and one the label table does not know
SmsConclusions == {NoneStr, "", "metabolic", "digital", "somatic", "unknown_pathway"}

SmsConfidences == {0, 5, 15, 500, 850, 999, 1000}

StrLen(str) ==
    CASE str = "" -> 0
      [] str = "metabolic" -> 9
      [] str = "digital" -> 7
      [] str = "somatic" -> 7
      [] str = "unknown_pathway" -> 15
      [] str = "dietary pattern" -> 15
      [] str = "screen behavior pattern" -> 23
      [] str = "environmental or sleep pattern" -> 30

\* labels.get(conclusion, conclusion)
SmsLabel(conclusion) ==
    CASE conclusion = "metabolic" -> "dietary pattern"
      [] conclusion = "digital" -> "screen behavior pattern"
      [] conclusion = "somatic" -> "environmental or sleep pattern"
      [] OTHER -> conclusion

\* the integer printed by f"{confidence:.0%}": confidence * 100 rounded half
\* to even
Percent(confidence) ==
    LET q == confidence \div 10
        r == confidence % 10
    IN  IF r < 5 THEN q
        ELSE IF r > 5 THEN q + 1
        ELSE IF q % 2 = 0 THEN q ELSE q + 1

Digits(n) == IF n < 10 THEN 1 ELSE IF n < 100 THEN 2 ELSE IF n < 1000 THEN 3 ELSE 4

\* len("\n".join(parts))
JoinedLen(lens) == SumSeq(lens) + (Len(lens) - 1)

\* guardrails.sanitize_for_sms: the parts of the message and its length
sanitize_for_sms(symptom_len, conclusion, confidence) ==
    LET hasCause == conclusion # NoneStr /\ conclusion # ""
        lens == <<SmsHeaderLen, SmsDetectedLen + symptom_len>>
                \o (IF hasCause
                    THEN <<SmsCauseLen + StrLen(SmsLabel(conclusion))>>
                    ELSE <<>>)
                \o <<SmsConfidenceLen + Digits(Percent(confidence)) + 1,
                     SmsFooterLen>>
    IN  [fn |-> "sanitize_for_sms",
         parts |-> <<"VITA Health Alert", "Detected">>
                   \o (IF hasCause THEN <<"Likely cause">> ELSE <<>>)
                   \o <<"Confidence", "Open VITA">>,
         label |-> IF hasCause THEN SmsLabel(conclusion) ELSE NoneStr,
         percent |-> Percent(confidence),
         length |-> JoinedLen(lens)]

\* one call of sanitize_for_sms, with any arguments
SanitizeForSms ==
    /\ sms_in = NoCall
    /\ \E symptom_len \in 0..MaxSymptomLen, conclusion \in SmsConclusions,
          confidence \in SmsConfidences :
        /\ sms_in' = [fn |-> "sanitize_for_sms", symptom_len |-> symptom_len,
                      conclusion |-> conclusion, confidence |-> confidence]
        /\ sms_out' = sanitize_for_sms(symptom_len, conclusion, confidence)
    /\ UNCHANGED nonSmsVars

NextSms == SanitizeForSms

SpecSms == Init /\ [][NextSms]_vars

\* C14 as stated: every message sanitize_for_sms builds has at most 320
\* characters.
C14_Original == sms_out.fn = "sanitize_for_sms" => sms_out.length <= 320

\* ------------------------------------------------------------------ CausalDAG
MaxAdds == 3

TOPOLOGICAL_ORDER ==
    <<"meal", "environmental", "behavioral", "glucose", "physiological", "symptom">>

FORBIDDEN_EDGES ==
    {<<"behavioral", "glucose">>, <<"symptom", "meal">>,
     <<"environmental", "behavioral">>}

\* node_type_from_id over the node ids used here: the type of the first
\* prefix of _PREFIX_MAP the id starts with, None when it starts with none
node_type_from_id(node_id) ==
    CASE node_id = "meal_1" -> "meal"
      [] node_id = "environment_1" -> "environmental"
      [] node_id = "behavioral_1" -> "behavioral"
      [] node_id \in {"glucose_1", "glucose_2"} -> "glucose"
      [] node_id = "physio_1" -> "physiological"
      [] node_id = "symptom_1" -> "symptom"
      [] OTHER -> NoneStr

DAGEdge(source, target, edge_type) ==
    [source |-> source, target |-> target, edge_type |-> edge_type, weight |-> 500]

\* the edges callers offer to add_edge
EdgeInputs ==
    {DAGEdge("meal_1", "glucose_1", "meal_to_glucose"),
     DAGEdge("meal_1", "glucose_1", "temporal"),
     DAGEdge("glucose_1", "physio_1", "glucose_to_hrv"),
     DAGEdge("meal_1", "physio_1", "causal"),
     DAGEdge("glucose_1", "glucose_2", "temporal"),
     DAGEdge("glucose_2", "glucose_1", "temporal"),
     DAGEdge("glucose_1", "glucose_1", "temporal"),
     DAGEdge("glucose_2", "physio_1", "glucose_to_hrv"),
     DAGEdge("behavioral_1", "glucose_1", "causal"),
     DAGEdge("environment_1", "behavioral_1", "causal"),
     DAGEdge("symptom_1", "meal_1", "causal"),
     DAGEdge("physio_1", "glucose_1", "causal"),
     DAGEdge("sleep_1", "physio_1", "causal"),
     DAGEdge("meal_1", "sleep_1", "meal_to_sleep")}

\* TOPOLOGICAL_ORDER.index(node_type), counted from 0
TopologicalIndex(node_type) ==
    (CHOOSE i \in DOMAIN TOPOLOGICAL_ORDER : TOPOLOGICAL_ORDER[i] = node_type) - 1

IsForbiddenNever(src_type, tgt_type) == FALSE

IsForbidden(src_type, tgt_type) == <<src_type, tgt_type>> \in FORBIDDEN_EDGES

IsBackwardOrLevel(src_type, tgt_type) ==
    TopologicalIndex(src_type) >= TopologicalIndex(tgt_type)

IsBackward(src_type, tgt_type) ==
    TopologicalIndex(src_type) > TopologicalIndex(tgt_type)

\* self._adjacency.setdefault(edge.source, []).append(edge)
AppendEdge(adj, edge) ==
    IF edge.source \in DOMAIN adj
    THEN [adj EXCEPT ![edge.source] = Append(@, edge)]
    ELSE adj @@ (edge.source :> <<edge>>)

\* CausalDAG.add_edge: the value returned and the adjacency map afterwards
add_edge(adj, edge) ==
    LET src_type == node_type_from_id(edge.source)
        tgt_type == node_type_from_id(edge.target)
    IN  IF src_type = NoneStr \/ tgt_type = NoneStr
        THEN [ret |-> FALSE, adjacency |-> adj]
        ELSE IF IsForbidden(src_type, tgt_type)
        THEN [ret |-> FALSE, adjacency |-> adj]
        ELSE IF IsBackward(src_type, tgt_type)
        THEN [ret |-> FALSE, adjacency |-> adj]
        ELSE [ret |-> TRUE, adjacency |-> AppendEdge(adj, edge)]

\* CausalDAG.neighbors
neighbors(adj, node_id) == IF node_id \in DOMAIN adj THEN adj[node_id] ELSE <<>>

\* CausalDAG.all_edges, as a set
all_edges(adj) == UNION {Range(adj[n]) : n \in DOMAIN adj}

DepthExceededAtLimit(path, max_depth) == Len(path) >= max_depth

\* `if len(path) > max_depth: return`
DepthExceeded(path, max_depth) == Len(path) > max_depth

RECURSIVE _dfs(_, _, _, _, _, _)
RECURSIVE DfsEdges(_, _, _, _, _, _)

\* CausalDAG._dfs: the paths it appends to results, in order
_dfs(adj, current, target, path, visited, max_depth) ==
    IF DepthExceeded(path, max_depth) THEN <<>>
    ELSE IF current = target
    THEN (IF path # <<>> THEN <<path>> ELSE <<>>)
    ELSE DfsEdges(adj, neighbors(adj, current), target, path,
                  visited \cup {current}, max_depth)

\* the `for edge in self.neighbors(current)` loop of _dfs
DfsEdges(adj, edges, target, path, visited, max_depth) ==
    IF edges = <<>> THEN <<>>
    ELSE (IF Head(edges).target \notin visited
          THEN _dfs(adj, Head(edges).target, target, Append(path, Head(edges)),
                    visited, max_depth)
          ELSE <<>>)
         \o DfsEdges(adj, Tail(edges), target, path, visited, max_depth)

\* CausalDAG.trace_paths
trace_paths(adj, source, target, max_depth) ==
    _dfs(adj, source, target, <<>>, {}, max_depth)

\* the nodes and depths trace_paths is asked about
TraceNodes == {"meal_1", "glucose_1", "glucose_2", "physio_1"}
TraceDepths == {0, 1, 2, 3}

\* a caller offers one edge to add_edge
AddEdge ==
    /\ trace_arg = NoCall
    /\ add_count < MaxAdds
    /\ \E edge \in EdgeInputs :
        /\ add_arg' = edge
        /\ add_ret' = add_edge(adjacency, edge).ret
        /\ adjacency' = add_edge(adjacency, edge).adjacency
    /\ add_count' = add_count + 1
    /\ UNCHANGED <<trace_arg, trace_ret>>
    /\ UNCHANGED nonDagVars

\* a caller asks for the paths between two different nodes
TracePaths ==
    /\ trace_arg = NoCall
    /\ \E source \in TraceNodes, target \in TraceNodes, max_depth \in TraceDepths :
        /\ source # target
        /\ trace_arg' = [fn |-> "trace_paths", source |-> source, target |-> target,
                         max_depth |-> max_depth]
        /\ trace_ret' = trace_paths(adjacency, source, target, max_depth)
    /\ UNCHANGED <<adjacency, add_count, add_arg, add_ret>>
    /\ UNCHANGED nonDagVars

NextDag == AddEdge \/ TracePaths

SpecDag == Init /\ [][NextDag]_vars

\* C15: every edge stored in the graph joins two nodes of recognized types,
\* its type pair is not forbidden, and its source type's topological index is
\* at most its target type's.
C15_StoredEdgesValid ==
    \A n \in DOMAIN adjacency : \A i \in DOMAIN adjacency[n] :
        LET e == adjacency[n][i]
            st == node_type_from_id(e.source)
            tt == node_type_from_id(e.target)
        IN  /\ e.source = n
            /\ st \in Range(TOPOLOGICAL_ORDER)
            /\ tt \in Range(TOPOLOGICAL_ORDER)
            /\ <<st, tt>> \notin {<<"behavioral", "glucose">>, <<"symptom", "meal">>,
                                 <<"environmental", "behavioral">>}
            /\ \E i1, i2 \in DOMAIN TOPOLOGICAL_ORDER :
                   /\ TOPOLOGICAL_ORDER[i1] = st
                   /\ TOPOLOGICAL_ORDER[i2] = tt
                   /\ i1 <= i2

C15_Witness ==
    /\ add_count = MaxAdds
    /\ ~add_ret
    /\ node_type_from_id(add_arg.source) = "behavioral"
    /\ node_type_from_id(add_arg.target) = "glucose"
    /\ Cardinality(all_edges(adjacency)) = 2

\* the edge offered is one add_edge must refuse, as the text states it
StatedRejected(edge) ==
    LET st == node_type_from_id(edge.source)
        tt == node_type_from_id(edge.target)
    IN  \/ st = NoneStr
        \/ tt = NoneStr
        \/ <<st, tt>> \in {<<"behavioral", "glucose">>, <<"symptom", "meal">>,
                          <<"environmental", "behavioral">>}
        \/ \E i1, i2 \in DOMAIN TOPOLOGICAL_ORDER :
               /\ TOPOLOGICAL_ORDER[i1] = st
               /\ TOPOLOGICAL_ORDER[i2] = tt
               /\ i1 > i2

\* C16: each add_edge call either returns true and appends exactly the offered
\* edge to the adjacency list of its source node, every other list unchanged,
\* or returns false and leaves the whole graph unchanged; it returns false
\* exactly when an endpoint type is unrecognized, the pair is forbidden or the
\* source type comes later than the target type.
C16_AddEdgeFrame ==
    [][add_count' = add_count + 1 =>
        /\ add_ret' = ~StatedRejected(add_arg')
        /\ add_ret' =>
            /\ DOMAIN adjacency' = DOMAIN adjacency \cup {add_arg'.source}
            /\ adjacency'[add_arg'.source] =
                   Append(neighbors(adjacency, add_arg'.source), add_arg')
            /\ \A n \in DOMAIN adjacency :
                   n # add_arg'.source => adjacency'[n] = adjacency[n]
        /\ ~add_ret' =>
            /\ adjacency' = adjacency
            /\ all_edges(adjacency') = all_edges(adjacency)
            /\ \A n \in TraceNodes :
                   neighbors(adjacency', n) = neighbors(adjacency, n)]_vars

C16_Witness ==
    /\ add_count = 2
    /\ add_ret
    /\ add_arg = DAGEdge("meal_1", "glucose_1", "temporal")
    /\ adjacency["meal_1"] =
           <<DAGEdge("meal_1", "glucose_1", "meal_to_glucose"),
             DAGEdge("meal_1", "glucose_1", "temporal")>>

\* the nodes a chain of edges passes through, its start included
PathNodes(source, p) == <<source>> \o [i \in DOMAIN p |-> p[i].target]

\* the simple paths of 1..max_depth stored edges from source to target
SimplePaths(adj, source, target, max_depth) ==
    {p \in UNION {[1..n -> all_edges(adj)] : n \in 1..max_depth} :
        /\ p[1].source = source
        /\ p[Len(p)].target = target
        /\ \A i \in 1..(Len(p) - 1) : p[i].target = p[i + 1].source
        /\ \A i, j \in DOMAIN PathNodes(source, p) :
               i # j => PathNodes(source, p)[i] # PathNodes(source, p)[j]}

\* how many stored edges equal the edges of p, position by position: an edge
\* added twice is stored twice, and a path through it exists twice
RECURSIVE StoredCopies(_, _)
StoredCopies(adj, p) ==
    IF p = <<>> THEN 1
    ELSE Cardinality({i \in DOMAIN adj[Head(p).source] :
                         adj[Head(p).source][i] = Head(p)})
         * StoredCopies(adj, Tail(p))

\* C17: the paths trace_paths returns for source # target are exactly the
\* simple paths from source to target with between 1 and max_depth stored
\* edges, each returned once per chain of stored edges; none when the target
\* cannot be reached.
C17_TracePathsSimple ==
    trace_arg # NoCall =>
        /\ Range(trace_ret) =
               SimplePaths(adjacency, trace_arg.source, trace_arg.target,
                           trace_arg.max_depth)
        /\ \A p \in Range(trace_ret) :
               Cardinality({i \in DOMAIN trace_ret : trace_ret[i] = p})
                   = StoredCopies(adjacency, p)
        /\ (\A d \in TraceDepths :
                SimplePaths(adjacency, trace_arg.source, trace_arg.target, d) = {})
               => trace_ret = <<>>

C17_Witness ==
    /\ trace_arg # NoCall
    /\ trace_arg.source = "meal_1"
    /\ trace_arg.target = "physio_1"
    /\ trace_arg.max_depth = 2
    /\ Len(trace_ret) = 2
    /\ \E i \in DOMAIN trace_ret : Len(trace_ret[i]) = 2
    /\ \E i \in DOMAIN trace_ret : Len(trace_ret[i]) = 1
    /\ SimplePaths(adjacency, "meal_1", "physio_1", 3) =
           SimplePaths(adjacency, "meal_1", "physio_1", 2)

\* --------------------------------------------------------- glucose classifier
\* rates of change in tenths of mg/dL per minute (3.0 = 30)
RateInputs == {-50, -31, -30, -29, -11, -10, -9, 0, 9, 10, 11, 29, 30, 31, 50}

\* glucose levels and differences in mg/dL
CurrentInputs == {69, 79, 80, 81, 89, 90, 91, 139, 140, 141}
DeltaInputs == {-40, -31, -30, -29, 0, 19, 20, 21}
BaselineInputs == {90, 100}

classify_trend_open(rate_mg_per_min) ==
    IF rate_mg_per_min > 30 THEN "rapidlyRising"
    ELSE IF rate_mg_per_min > 10 THEN "rising"
    ELSE IF rate_mg_per_min > -10 THEN "stable"
    ELSE IF rate_mg_per_min >= -30 THEN "falling"
    ELSE "rapidlyFalling"

\* glucose_classifier.classify_trend
classify_trend(rate_mg_per_min) ==
    IF rate_mg_per_min > 30 THEN "rapidlyRising"
    ELSE IF rate_mg_per_min >= 10 THEN "rising"
    ELSE IF rate_mg_per_min > -10 THEN "stable"
    ELSE IF rate_mg_per_min >= -30 THEN "falling"
    ELSE "rapidlyFalling"

classify_energy_state_inclusive(current_mg_dl, delta_from_peak, baseline_mg_dl) ==
    IF current_mg_dl < (baseline_mg_dl - 10) /\ delta_from_peak < -30
    THEN "reactiveLow"
    ELSE IF delta_from_peak < -30 THEN "crashing"
    ELSE IF current_mg_dl >= 140 \/ delta_from_peak > 20 THEN "rising"
    ELSE "stable"

\* glucose_classifier.classify_energy_state
classify_energy_state(current_mg_dl, delta_from_peak, baseline_mg_dl) ==
    IF current_mg_dl < (baseline_mg_dl - 10) /\ delta_from_peak < -30
    THEN "reactiveLow"
    ELSE IF delta_from_peak < -30 THEN "crashing"
    ELSE IF current_mg_dl > 140 \/ delta_from_peak > 20 THEN "rising"
    ELSE "stable"

\* one call of classify_trend
ClassifyTrend ==
    /\ cls_in = NoCall
    /\ \E rate \in RateInputs :
        /\ cls_in' = [fn |-> "classify_trend", rate |-> rate]
        /\ cls_out' = classify_trend(rate)
    /\ UNCHANGED nonClsVars

\* one call of classify_energy_state
ClassifyEnergyState ==
    /\ cls_in = NoCall
    /\ \E current \in CurrentInputs, delta \in DeltaInputs, baseline \in BaselineInputs :
        /\ cls_in' = [fn |-> "classify_energy_state", current |-> current,
                      delta |-> delta, baseline |-> baseline]
        /\ cls_out' = classify_energy_state(current, delta, baseline)
    /\ UNCHANGED nonClsVars

NextClassifier == ClassifyTrend \/ ClassifyEnergyState

SpecClassifier == Init /\ [][NextClassifier]_vars

\* the buckets of the trend table that contain the rate
StatedTrends(rate) ==
    {b \in {"rapidlyRising", "rising", "stable", "falling", "rapidlyFalling"} :
        \/ b = "rapidlyRising" /\ rate > 30
        \/ b = "rising" /\ 10 <= rate /\ rate <= 30
        \/ b = "stable" /\ -10 < rate /\ rate < 10
        \/ b = "falling" /\ -30 <= rate /\ rate <= -10
        \/ b = "rapidlyFalling" /\ rate < -30}

StatedEnergyState(current, delta, baseline) ==
    CASE current < baseline - 10 /\ delta < -30 -> "reactiveLow"
      [] ~(current < baseline - 10) /\ delta < -30 -> "crashing"
      [] ~(delta < -30) /\ (current > 140 \/ delta > 20) -> "rising"
      [] OTHER -> "stable"

\* C19: classify_energy_state gives reactiveLow when current < baseline - 10
\* and delta < -30, else crashing when delta < -30, else rising when
\* current > 140 or delta > 20, else stable; the values exactly on a boundary
\* do not trigger its check.
C19_EnergyStateOrdered ==
    cls_in.fn = "classify_energy_state" =>
        /\ cls_out = StatedEnergyState(cls_in.current, cls_in.delta, cls_in.baseline)
        /\ (cls_in.current = 140 /\ cls_in.delta \in -30..20) => cls_out = "stable"
        /\ (cls_in.delta = 20 /\ cls_in.current <= 140) => cls_out = "stable"
        /\ cls_in.delta = -30 => cls_out \notin {"reactiveLow", "crashing"}
        /\ cls_in.current = cls_in.baseline - 10 => cls_out # "reactiveLow"

C19_Witness ==
    /\ cls_in.fn = "classify_energy_state"
    /\ cls_in.current = 140
    /\ cls_in.delta = 20
    /\ cls_out = "stable"

\* ------------------------------------------------------------- metabolic debt
MaxMeals == 3

\* Fractions are integers in units of 1/DebtOne: the unit is divisible by the
\* divisors 50 and 80, by the baselines used and by the weights' denominators,
\* so every quotient below is exact.
DebtOne == 1200000

MealDebtInput(gl, peak, nadir, post_hrv, base_hrv, has_bio, bio, hour) ==
    [glycemic_load |-> gl, peak_glucose |-> peak, nadir_glucose |-> nadir,
     post_meal_hrv_avg |-> post_hrv, baseline_hrv_avg |-> base_hrv,
     has_bio |-> has_bio, bioavailability_modifier |-> bio, meal_hour |-> hour]

\* the meals callers pass: bioavailability in thousandths, the rest in the
\* units of the dataclass
MealInputs ==
    {MealDebtInput(25, 140, 100, 40, 50, FALSE, 0, 12),
     MealDebtInput(100, 200, 100, 0, 50, TRUE, 900, 21),
     MealDebtInput(0, 100, 100, 60, 50, TRUE, 1100, 8),
     MealDebtInput(-500, 90, 100, 40, 0, FALSE, 0, 20),
     MealDebtInput(50, 180, 100, 50, 50, FALSE, 0, 19),
     MealDebtInput(10, 120, 100, 10, -5, TRUE, 1000, 20),
     MealDebtInput(50, 180, 100, 30, 40, TRUE, 1100, 23),
     MealDebtInput(50, 200, 120, 45, 45, FALSE, 0, 0)}

Max(a, b) == IF a >= b THEN a ELSE b

\* gl_factor = min(meal.glycemic_load / 50.0, 1.0)
gl_factor(meal) == Min((meal.glycemic_load * DebtOne) \div 50, DebtOne)

\* spike_magnitude = min(spike / 80.0, 1.0) if spike > 0 else 0.0
spike_magnitude(meal) ==
    LET spike == meal.peak_glucose - meal.nadir_glucose
    IN  IF spike > 0 THEN Min((spike * DebtOne) \div 80, DebtOne) ELSE 0

\* hrv_drop: the fractional drop from baseline, 0.0 without a positive baseline
hrv_drop(meal) ==
    IF meal.baseline_hrv_avg > 0
    THEN Max(((meal.baseline_hrv_avg - meal.post_meal_hrv_avg) * DebtOne)
                 \div meal.baseline_hrv_avg,
             0)
    ELSE 0

cooking_modifier_floor(meal) ==
    IF meal.has_bio
    THEN (IF meal.bioavailability_modifier > 1000
          THEN (8 * DebtOne) \div 10
          ELSE (12 * DebtOne) \div 10)
    ELSE (8 * DebtOne) \div 10

\* cooking_modifier: 0.8 if bio > 1.0 else 1.2, and 1.0 without a modifier
cooking_modifier(meal) ==
    IF meal.has_bio
    THEN (IF meal.bioavailability_modifier > 1000
          THEN (8 * DebtOne) \div 10
          ELSE (12 * DebtOne) \div 10)
    ELSE DebtOne

\* timing_penalty = 1.3 if meal.meal_hour >= 20 else 1.0, in tenths
timing_penalty(meal) == IF meal.meal_hour >= 20 THEN 13 ELSE 10

\* metabolic_debt.compute_meal_debt
compute_meal_debt(meal) ==
    (((gl_factor(meal) * 30) \div 100
      + (spike_magnitude(meal) * 30) \div 100
      + (hrv_drop(meal) * 25) \div 100
      + ((cooking_modifier(meal) - (8 * DebtOne) \div 10) * 15) \div 100)
     * timing_penalty(meal)) \div 10

\* total = sum(compute_meal_debt(m) for m in meals)
TotalDebt(meals) == SumSeq([i \in DOMAIN meals |-> compute_meal_debt(meals[i])])

compute_metabolic_debt_unclamped(meals) ==
    IF meals = <<>> THEN 0
    ELSE (TotalDebt(meals) * 100) \div Max(Len(meals), 1)

\* metabolic_debt.compute_metabolic_debt: the score in units of 1/DebtOne
compute_metabolic_debt(meals) ==
    IF meals = <<>> THEN 0
    ELSE LET score == (TotalDebt(meals) * 100) \div Max(Len(meals), 1)
         IN  Max(0, Min(score, 100 * DebtOne))

\* one call of compute_metabolic_debt
ComputeMetabolicDebt ==
    /\ debt_in = NoCall
    /\ \E n \in 0..MaxMeals : \E meals \in [1..n -> MealInputs] :
        /\ debt_in' = [fn |-> "compute_metabolic_debt", meals |-> meals]
        /\ debt_out' = compute_metabolic_debt(meals)
    /\ UNCHANGED nonDebtVars

NextDebt == ComputeMetabolicDebt

SpecDebt == Init /\ [][NextDebt]_vars

\* sum of the per-meal raw debts of the call
StatedTotal == SumSeq([i \in DOMAIN debt_in.meals |-> compute_meal_debt(debt_in.meals[i])])

\* C20: the score compute_metabolic_debt returns is the mean of the per-meal
\* raw debts times 100, clamped to [0, 100]: 0 when the mean is negative, 100
\* when it exceeds 1, the mean times 100 otherwise, and 0 for the empty list;
\* a meal whose baseline HRV is not positive contributes an hrv drop of 0.
C20_DebtClampedMean ==
    debt_in.fn = "compute_metabolic_debt" =>
        LET n == Len(debt_in.meals)
        IN  /\ debt_out >= 0
            /\ debt_out <= 100 * DebtOne
            /\ n = 0 => debt_out = 0
            /\ n > 0 =>
                /\ StatedTotal < 0 => debt_out = 0
                /\ StatedTotal > n * DebtOne => debt_out = 100 * DebtOne
                /\ (StatedTotal >= 0 /\ StatedTotal <= n * DebtOne)
                       => debt_out * n = StatedTotal * 100
            /\ \A i \in 1..n :
                   debt_in.meals[i].baseline_hrv_avg <= 0
                       => hrv_drop(debt_in.meals[i]) = 0

C20_Witness ==
    /\ debt_in.fn = "compute_metabolic_debt"
    /\ Len(debt_in.meals) = 2
    /\ debt_in.meals[1].baseline_hrv_avg <= 0
    /\ debt_in.meals[2].baseline_hrv_avg > 0
    /\ debt_out > 0
    /\ debt_out < 100 * DebtOne

\* the call passed one meal with glycemic load 50, a spike of 80, no HRV
\* drop, unknown bioavailability and an hour before 20
ExampleMealCall ==
    /\ debt_in.fn = "compute_metabolic_debt"
    /\ Len(debt_in.meals) = 1
    /\ debt_in.meals[1].glycemic_load = 50
    /\ debt_in.meals[1].peak_glucose - debt_in.meals[1].nadir_glucose = 80
    /\ debt_in.meals[1].post_meal_hrv_avg = debt_in.meals[1].baseline_hrv_avg
    /\ ~debt_in.meals[1].has_bio
    /\ debt_in.meals[1].meal_hour < 20

\* C21 as stated: that meal has raw debt 0.33 and the score of the call is 33.0.
C21_Original ==
    ExampleMealCall =>
        /\ 100 * compute_meal_debt(debt_in.meals[1]) = 33 * DebtOne
        /\ debt_out = 33 * DebtOne

\* C21: that meal has raw debt 0.63 (0.3 for the load, 0.3 for the spike and
\* 0.03 for the unknown cooking method) and the score of the call is 63.0.
C21_ExampleDebt ==
    ExampleMealCall =>
        /\ 100 * compute_meal_debt(debt_in.meals[1]) = 63 * DebtOne
        /\ debt_out = 63 * DebtOne

C21_Witness ==
    /\ ExampleMealCall
    /\ debt_in.meals[1].peak_glucose = 200
    /\ debt_in.meals[1].meal_hour = 0
    /\ debt_out = 63 * DebtOne

\* --------------------------------------------------------------- digital debt
MaxEvents == 2

REACTIVE_WINDOW_MS == 30 * 60 * 1000

ScreenEvent(start_ms, duration_seconds, dopamine_debt_score) ==
    [start_ms |-> start_ms, duration_seconds |-> duration_seconds,
     dopamine_debt_score |-> dopamine_debt_score]

GlucoseCrash(timestamp_ms) == [timestamp_ms |-> timestamp_ms]

\* the time of the first crash, and a second crash 45 minutes later
CrashTime == 1000000
LaterCrashTime == CrashTime + 45 * 60 * 1000

\* the screen events callers pass: start in ms, duration in seconds (a
\* multiple of 30 minutes) and dopamine score in thousandths of a point
EventInputs ==
    {ScreenEvent(CrashTime + 5 * 60 * 1000, 1800, 50000),
     ScreenEvent(CrashTime + 60 * 60 * 1000, 1800, 30000),
     ScreenEvent(CrashTime + REACTIVE_WINDOW_MS, 3600, 0),
     ScreenEvent(CrashTime + REACTIVE_WINDOW_MS + 1, 7200, 100000),
     ScreenEvent(CrashTime - 1, 1800, 0),
     ScreenEvent(CrashTime, 3600, 100000),
     ScreenEvent(CrashTime + 60 * 60 * 1000, -1800, 0)}

\* the crashes argument: None, or a list of crashes
CrashInputs ==
    {[present |-> FALSE, list |-> <<>>],
     [present |-> TRUE, list |-> <<>>],
     [present |-> TRUE, list |-> <<GlucoseCrash(CrashTime)>>],
     [present |-> TRUE,
      list |-> <<GlucoseCrash(CrashTime), GlucoseCrash(LaterCrashTime)>>]}

\* arguments of compute_dopamine_debt: minutes, and thousandths for the rest
PassiveInputs == {-60, 0, 30, 60, 120}
SwitchInputs == {-2000, 0, 500, 1000, 1500}
FocusInputs == {-500, 0, 500, 1000, 2000}
LateInputs == {-1000, 0, 1000, 2000}

_is_reactive_symmetric(event, crashes) ==
    \E i \in DOMAIN crashes :
        /\ -REACTIVE_WINDOW_MS <= event.start_ms - crashes[i].timestamp_ms
        /\ event.start_ms - crashes[i].timestamp_ms <= REACTIVE_WINDOW_MS

\* digital_debt._is_reactive
_is_reactive(event, crashes) ==
    \E i \in DOMAIN crashes :
        /\ 0 <= event.start_ms - crashes[i].timestamp_ms
        /\ event.start_ms - crashes[i].timestamp_ms <= REACTIVE_WINDOW_MS

\* digital_debt.compute_dopamine_debt, in thousandths of a point
compute_dopamine_debt(passive_minutes_last_3h, app_switch_frequency_z_score, focus_mode_ratio, late_night_penalty) ==
    LET passive_norm == Min((passive_minutes_last_3h * 1000) \div 60, 1000)
        switch_norm == Min(Max(app_switch_frequency_z_score, 0), 1000)
        focus_norm == Min(Max(focus_mode_ratio, 0), 1000)
        late_norm == Min(Max(late_night_penalty, 0), 1000)
        score == ((4 * passive_norm) \div 10
                  + (3 * switch_norm) \div 10
                  + (2 * (1000 - focus_norm)) \div 10
                  + (1 * late_norm) \div 10) * 100
    IN  Max(0, Min(score, 100000))

\* the `for evt in events` loop of compute_digital_debt: genuine minutes (in
\* thousandths) and the maximum dopamine score after the events
RECURSIVE DigitalLoop(_, _, _)
DigitalLoop(events, crashes, acc) ==
    IF events = <<>> THEN acc
    ELSE LET evt == Head(events)
         IN  DigitalLoop(Tail(events), crashes,
                 [genuine_minutes |->
                      IF ~_is_reactive(evt, crashes)
                      THEN acc.genuine_minutes + (evt.duration_seconds * 1000) \div 60
                      ELSE acc.genuine_minutes,
                  max_dopamine_debt |->
                      Max(acc.max_dopamine_debt, evt.dopamine_debt_score)])

\* digital_debt.compute_digital_debt: the score in thousandths of a point,
\* with the two sums the loop ends with
compute_digital_debt(events, crashes) ==
    IF events = <<>>
    THEN [score |-> 0, genuine_minutes |-> 0, max_dopamine_debt |-> 0]
    ELSE LET list == IF crashes.present /\ crashes.list # <<>>
                     THEN crashes.list ELSE <<>>
             sums == DigitalLoop(events, list,
                         [genuine_minutes |-> 0, max_dopamine_debt |-> 0])
             screen_time_factor == Min(sums.genuine_minutes \div 60, 1000) * 60
             dopamine_factor == (sums.max_dopamine_debt * 4) \div 10
         IN  [score |-> Min(screen_time_factor + dopamine_factor, 100000),
              genuine_minutes |-> sums.genuine_minutes,
              max_dopamine_debt |-> sums.max_dopamine_debt]

\* one call of compute_dopamine_debt
ComputeDopamineDebt ==
    /\ dig_in = NoCall
    /\ \E passive \in PassiveInputs, switch \in SwitchInputs, focus \in FocusInputs,
          late \in LateInputs :
        /\ dig_in' = [fn |-> "compute_dopamine_debt", passive |-> passive,
                      switch |-> switch, focus |-> focus, late |-> late]
        /\ dig_out' = [fn |-> "compute_dopamine_debt",
                       score |-> compute_dopamine_debt(passive, switch, focus, late)]
    /\ UNCHANGED nonDigVars

\* one call of compute_digital_debt
ComputeDigitalDebt ==
    /\ dig_in = NoCall
    /\ \E n \in 0..MaxEvents : \E events \in [1..n -> EventInputs] :
       \E crashes \in CrashInputs :
        /\ dig_in' = [fn |-> "compute_digital_debt", events |-> events,
                      crashes |-> crashes]
        /\ dig_out' = [fn |-> "compute_digital_debt"]
                          @@ compute_digital_debt(events, crashes)
    /\ UNCHANGED nonDigVars

NextDigital == ComputeDopamineDebt \/ ComputeDigitalDebt

SpecDigital == Init /\ [][NextDigital]_vars

Clamp(x, lo, hi) == IF x < lo THEN lo ELSE IF x > hi THEN hi ELSE x

\* the event starts within 30 minutes after some crash of the call
StatedReactive(event) ==
    \E i \in DOMAIN dig_in.crashes.list :
        /\ event.start_ms >= dig_in.crashes.list[i].timestamp_ms
        /\ event.start_ms <= dig_in.crashes.list[i].timestamp_ms + 1800000

\* the event starts before every crash, or more than 30 minutes after every crash
StatedGenuine(event) ==
    \/ \A i \in DOMAIN dig_in.crashes.list :
           event.start_ms < dig_in.crashes.list[i].timestamp_ms
    \/ \A i \in DOMAIN dig_in.crashes.list :
           event.start_ms > dig_in.crashes.list[i].timestamp_ms + 1800000

\* minutes (in thousandths) of the events of the call that are not reactive
StatedGenuineMinutes ==
    SumSeq([i \in DOMAIN dig_in.events |->
               IF StatedReactive(dig_in.events[i]) THEN 0
               ELSE (dig_in.events[i].duration_seconds * 1000) \div 60])

\* the largest dopamine score among all events of the call
StatedMaxDopamine ==
    CHOOSE m \in {dig_in.events[i].dopamine_debt_score : i \in DOMAIN dig_in.events} :
        \A i \in DOMAIN dig_in.events : dig_in.events[i].dopamine_debt_score <= m

\* C22 as stated: the digital debt is clamp(screenFactor + dopamineFactor, 0,
\* 100) with screenFactor = min(genuineMinutes / 60, 1) * 60 and
\* dopamineFactor = 0.4 times the largest event dopamine score; it lies in
\* [0, 100] and is 0 for an empty event list.
C22_Original ==
    dig_in.fn = "compute_digital_debt" =>
        /\ dig_out.score >= 0
        /\ dig_out.score <= 100000
        /\ dig_in.events = <<>> => dig_out.score = 0
        /\ dig_in.events # <<>> =>
               dig_out.score =
                   Clamp(Min(StatedGenuineMinutes \div 60, 1000) * 60
                             + (StatedMaxDopamine * 4) \div 10,
                         0, 100000)

Clamp01(x) == Clamp(x, 0, 1000)

\* C23 as stated: the dopamine debt is clamp((0.4 passiveNorm + 0.3 switchNorm
\* + 0.2 (1 - focusNorm) + 0.1 lateNorm) * 100, 0, 100) with each of the four
\* terms clamped to [0, 1] first.
C23_Original ==
    dig_in.fn = "compute_dopamine_debt" =>
        dig_out.score =
            Clamp(((4 * Clamp01((dig_in.passive * 1000) \div 60)) \div 10
                   + (3 * Clamp01(dig_in.switch)) \div 10
                   + (2 * (1000 - Clamp01(dig_in.focus))) \div 10
                   + Clamp01(dig_in.late) \div 10) * 100,
                  0, 100000)

\* C24: an event starting within 30 minutes after a crash adds nothing to the
\* genuine minutes and still enters the dopamine maximum; an event starting
\* before every crash or more than 30 minutes after every crash is counted;
\* the score is built from these two sums.
C24_ReactiveExcluded ==
    (dig_in.fn = "compute_digital_debt" /\ dig_in.events # <<>>) =>
        /\ dig_out.genuine_minutes = StatedGenuineMinutes
        /\ dig_out.max_dopamine_debt = StatedMaxDopamine
        /\ \A i \in DOMAIN dig_in.events :
               StatedGenuine(dig_in.events[i]) => ~StatedReactive(dig_in.events[i])
        /\ dig_out.score =
               Min(Min(StatedGenuineMinutes \div 60, 1000) * 60
                       + (StatedMaxDopamine * 4) \div 10,
                   100000)

C24_Witness ==
    /\ dig_in.fn = "compute_digital_debt"
    /\ Len(dig_in.events) = 2
    /\ StatedReactive(dig_in.events[1])
    /\ StatedGenuine(dig_in.events[2])
    /\ dig_in.events[1].dopamine_debt_score = 50000
    /\ dig_in.events[2].dopamine_debt_score = 30000
    /\ dig_out.genuine_minutes = 30000
    /\ dig_out.max_dopamine_debt = 50000
    /\ dig_out.score = 50000

\* ----------------------------------------------------- the inference path again
\* C26: on the inference path every observation is tagged metabolic or not
\* tagged, the metabolic prior is at least the digital prior, and the
\* explanation concludes 'metabolic' with the metabolic causal chain, whatever
\* the evidence.
C26_AlwaysMetabolic ==
    /\ \A i \in DOMAIN observations :
           observations[i].supports_hypothesis \in {"metabolic", NoneStr}
    /\ hypotheses # <<>> =>
        /\ Len(hypotheses) = 2
        /\ \E m, d \in DOMAIN hypotheses :
               /\ hypotheses[m].source_type = "metabolic"
               /\ hypotheses[d].source_type = "digital"
               /\ hypotheses[m].prior_probability >= hypotheses[d].prior_probability
    /\ Inferred =>
        /\ explanation.conclusion = "metabolic"
        /\ ~explanation.safety_bypass
        /\ explanation.causal_chain =
               <<[from |-> "meal", to |-> "glucose", edge |-> "meal_to_glucose"],
                 [from |-> "glucose", to |-> "physiological", edge |-> "glucose_to_hrv"]>>
        /\ \A r \in ReturnedOf(nQueries) :
               returned[r].explanation.conclusion = "metabolic"

C26_Witness ==
    /\ pc = "done"
    /\ Inferred
    /\ NoDataSoFar
    /\ hypotheses[1].prior_probability = hypotheses[2].prior_probability
    /\ explanation.conclusion = "metabolic"
    /\ explanation.confidence = 500

\* C28: within one query no evidence source is called twice; after the first
\* probe iteration both probed sources are in the result map, and a later
\* iteration calls no source, appends no observation and computes the
\* confidence of the first iteration again.
C28_SourcesFetchedOnce ==
    /\ [](/\ \A i, j \in DOMAIN calls : i # j => calls[i] # calls[j]
          /\ iteration >= 1 =>
                 {"rotimatic_server", "instacart_server"} \subseteq DOMAIN adapter_results)
    /\ [][(iteration >= 1 /\ iteration' = iteration + 1) =>
            /\ calls' = calls
            /\ observations' = observations
            /\ adapter_results' = adapter_results
            /\ confidences'[iteration'] = confidences[1]]_vars

C28_Witness ==
    /\ pc = "done"
    /\ Inferred
    /\ iteration = 3
    /\ calls = <<"apple_health", "cgm_stelo", "rotimatic_server", "instacart_server">>
    /\ Len(observations) = 4
    /\ confidences[3] = confidences[1]

\* C29 as stated: the explanation returned on the bypass path has
\* escalation_triggered = true only if the notification was sent.
C29_Original ==
    (Unsafe /\ pc \in {"return", "done"} /\ explanation.escalation_triggered)
        => escalation = "sent"

\* --------------------------------------------------------------- acyclicity
\* the nodes one stored edge away from a node of S
Successors(adj, S) == {e.target : e \in {f \in all_edges(adj) : f.source \in S}}

\* the nodes reachable from S by chains of stored edges, S included
RECURSIVE ReachableFrom(_, _)
ReachableFrom(adj, S) ==
    IF Successors(adj, S) \subseteq S THEN S
    ELSE ReachableFrom(adj, S \cup Successors(adj, S))

\* C27 as stated: no node of the graph is reached from itself by a non-empty
\* chain of stored edges.
C27_Original ==
    \A n \in DOMAIN adjacency :
        n \notin ReachableFrom(adjacency, Successors(adjacency, {n}))

\* ----------------------------------------------------------------- KitchenFSM
MaxFsmCalls == 3

\* schemas.kitchen.VALID_TRANSITIONS: (state, trigger) -> next state
VALID_TRANSITIONS ==
    (<<"idle", "appliance_start">> :> "cooking")
    @@ (<<"cooking", "appliance_stop">> :> "meal_ready")
    @@ (<<"cooking", "timeout">> :> "idle")
    @@ (<<"meal_ready", "manual_confirm">> :> "meal_consumed")
    @@ (<<"meal_ready", "glucose_spike_detected">> :> "meal_consumed")
    @@ (<<"meal_ready", "timeout">> :> "idle")
    @@ (<<"meal_consumed", "auto_reset">> :> "idle")
    @@ (<<"meal_consumed", "timeout">> :> "idle")

\* the triggers callers send, one of them unknown to the table
Triggers == {"appliance_start", "appliance_stop", "timeout", "manual_confirm", "reboot"}

KitchenStateRecord(state, entered_at_ms) ==
    [state |-> state, entered_at_ms |-> entered_at_ms,
     has_exit |-> FALSE, exited_at_ms |-> 0]

\* rows with exited_at_ms IS NULL
OpenRows(rows) == {i \in DOMAIN rows : ~rows[i].has_exit}

\* KitchenFSM.get_current_state: the rows the query may return (open, latest
\* entered_at_ms, any of them on a tie), 0 standing for None
get_current_state(rows) ==
    IF OpenRows(rows) = {} THEN {0}
    ELSE {i \in OpenRows(rows) :
             \A j \in OpenRows(rows) : rows[j].entered_at_ms <= rows[i].entered_at_ms}

\* now_ms = int(time.time() * 1000): not before the last value read
Now(clock) == {clock, clock + 1}

\* `current.exited_at_ms = now_ms` written at commit, when current is not None
CloseRow(rows, current, now_ms) ==
    IF current = 0 THEN rows
    ELSE [rows EXCEPT ![current] = [@ EXCEPT !.has_exit = TRUE, !.exited_at_ms = now_ms]]

\* transition up to its commit: `current = await self.get_current_state()`,
\* the lookup in VALID_TRANSITIONS and the ValueError of an invalid trigger
TransitionRead(s) ==
    /\ fsm_pc[s] = "idle"
    /\ fsm_calls < MaxFsmCalls
    /\ \E trigger \in Triggers, current \in get_current_state(kitchen_states) :
        LET current_enum == IF current # 0 THEN kitchen_states[current].state ELSE "idle"
            key == <<current_enum, trigger>>
        IN  /\ fsm_call' = [fsm_call EXCEPT ![s] =
                               [fn |-> "transition", trigger |-> trigger,
                                current_enum |-> current_enum]]
            /\ fsm_current' = [fsm_current EXCEPT ![s] = current]
            /\ IF key \in DOMAIN VALID_TRANSITIONS
               THEN /\ fsm_pc' = [fsm_pc EXCEPT ![s] = "transition_commit"]
                    /\ fsm_ret' = [fsm_ret EXCEPT ![s] = NoneStr]
               ELSE /\ fsm_pc' = [fsm_pc EXCEPT ![s] = "idle"]
                    /\ fsm_ret' = [fsm_ret EXCEPT ![s] = "ValueError"]
    /\ fsm_calls' = fsm_calls + 1
    /\ UNCHANGED <<kitchen_states, fsm_clock>>
    /\ UNCHANGED nonFsmVars

\* the rest of transition: close the row read, add the new row, commit
TransitionCommit(s) ==
    /\ fsm_pc[s] = "transition_commit"
    /\ \E now_ms \in Now(fsm_clock) :
        /\ kitchen_states' =
               Append(CloseRow(kitchen_states, fsm_current[s], now_ms),
                      KitchenStateRecord(
                          VALID_TRANSITIONS[<<fsm_call[s].current_enum,
                                              fsm_call[s].trigger>>],
                          now_ms))
        /\ fsm_clock' = now_ms
    /\ fsm_pc' = [fsm_pc EXCEPT ![s] = "idle"]
    /\ fsm_ret' = [fsm_ret EXCEPT ![s] = "record"]
    /\ UNCHANGED <<fsm_call, fsm_current, fsm_calls>>
    /\ UNCHANGED nonFsmVars

\* ensure_initial_state up to its commit: the read and the `is None` test
EnsureRead(s) ==
    /\ fsm_pc[s] = "idle"
    /\ fsm_calls < MaxFsmCalls
    /\ \E current \in get_current_state(kitchen_states) :
        /\ fsm_current' = [fsm_current EXCEPT ![s] = current]
        /\ fsm_pc' = [fsm_pc EXCEPT ![s] =
                         IF current = 0 THEN "ensure_commit" ELSE "idle"]
    /\ fsm_call' = [fsm_call EXCEPT ![s] = [fn |-> "ensure_initial_state"]]
    /\ fsm_ret' = [fsm_ret EXCEPT ![s] = NoneStr]
    /\ fsm_calls' = fsm_calls + 1
    /\ UNCHANGED <<kitchen_states, fsm_clock>>
    /\ UNCHANGED nonFsmVars

\* the rest of ensure_initial_state: add the idle row, commit
EnsureCommit(s) ==
    /\ fsm_pc[s] = "ensure_commit"
    /\ \E now_ms \in Now(fsm_clock) :
        /\ kitchen_states' = Append(kitchen_states, KitchenStateRecord("idle", now_ms))
        /\ fsm_clock' = now_ms
    /\ fsm_pc' = [fsm_pc EXCEPT ![s] = "idle"]
    /\ UNCHANGED <<fsm_call, fsm_current, fsm_ret, fsm_calls>>
    /\ UNCHANGED nonFsmVars

NextKitchen ==
    \E s \in FsmSessions :
        \/ TransitionRead(s)
        \/ TransitionCommit(s)
        \/ EnsureRead(s)
        \/ EnsureCommit(s)

SpecKitchen == Init /\ [][NextKitchen]_vars

\* C30 as stated: at most one kitchen state row is open; a transition that
\* succeeds closes the row that was open and opens exactly one; a rejected
\* transition changes no row.
C30_Original ==
    /\ [](Cardinality(OpenRows(kitchen_states)) <= 1)
    /\ [][\A s \in FsmSessions :
            /\ (fsm_ret'[s] = "record" /\ fsm_pc[s] = "transition_commit") =>
                /\ Len(kitchen_states') = Len(kitchen_states) + 1
                /\ OpenRows(kitchen_states') = {Len(kitchen_states')}
            /\ (fsm_ret'[s] = "ValueError" /\ fsm_calls' = fsm_calls + 1) =>
                kitchen_states' = kitchen_states]_vars

\* ---------------------------------------------------- concurrent queries
\* Each POST /query builds its own CausalAgent on its own session and runs
\* query(); asyncio switches between the running calls at their awaits, so
\* the code between two awaits is one step.

\* evidence the adapters hold while the queries run
PulseEvidence ==
    {r \in get_pulse_results : ~r.data.present \/ r.data.hrv_ms \in {15, 45}}
GlucoseEvidence ==
    {r \in get_current_glucose_results :
        ~r.data.present \/ r.data.value_mg_dl = 161}

\* where the locals of query q live: one frame per call
SlotShared(q) == 1

Slot(q) == q

\* query() entered, up to `await self.apple_health.get_pulse()`
QueryEnter(symptom_) == [IdleFrame EXCEPT !.pc = "pulse", !.symptom = symptom_]

\* get_pulse returned, up to `await self.cgm.get_current_glucose()`
OnPulse(f, r) == [f EXCEPT !.pulse_result = r, !.pc = "glucose"]

\* get_current_glucose returned: the safety check, then either the start of
\* _handle_safety_bypass or the observations, the hypotheses and the result map
OnGlucose(f, r) ==
    LET s == check_hrv_safety(f.pulse_result.data)
    IN  IF AfterSafety(s) = "bypass_save"
        THEN [f EXCEPT !.glucose_result = r, !.safety = <<s>>, !.pc = "bypass_save"]
        ELSE [f EXCEPT !.glucose_result = r, !.safety = <<s>>,
                       !.observations =
                           <<Observation("apple_health", f.pulse_result.data, NoneStr),
                             Observation("cgm_stelo", r.data, NoneStr)>>,
                       !.hypotheses = _generate_hypotheses(r),
                       !.adapter_results =
                           ("apple_health" :> f.pulse_result) @@ ("cgm_stelo" :> r),
                       !.pc = "probe"]

\* one iteration of the probe loop; when the loop ends, the guard and _infer,
\* up to `await self.state_store.save_trace(trace)`
OnProbe(f, rot, ins) ==
    LET p == _probe(f.hypotheses, f.adapter_results, rot, ins)
        obs == f.observations \o p.observations
        results == UpdateResults(p.results, p.observations)
        confidence == _compute_confidence(f.hypotheses, obs)
        stop == ShouldStop(confidence) \/ f.iteration + 1 >= MAX_ITERATIONS
        g == [f EXCEPT !.observations = obs, !.adapter_results = results,
                       !.iteration = f.iteration + 1]
    IN  IF stop
        THEN [g EXCEPT !.explanation =
                           _infer(f.symptom, f.hypotheses, obs,
                                  apply_hallucination_guard(results)),
                       !.pc = "persist_save"]
        ELSE g

\* save_trace of _persist_trace returned, up to `await self.session.commit()`
OnPersistSave(q, f) ==
    [f EXCEPT !.pending =
                  Append(f.pending,
                      ReasoningTrace(q, f.explanation.symptom, "inference",
                          SerializeHypotheses(f.hypotheses),
                          SerializeObservations(f.observations),
                          f.explanation.conclusion, f.explanation.confidence,
                          f.explanation.causal_chain, f.explanation.narrative)),
              !.pc = "persist_commit"]

\* save_trace of _handle_safety_bypass returned, up to the escalation attempt
OnBypassSave(q, f) ==
    [f EXCEPT !.pending =
                  Append(f.pending,
                      ReasoningTrace(q, f.symptom, "pulse", <<>>,
                          BypassObservations(f.safety[1]), NoneStr, 1000, <<>>,
                          ReasonNarrative(f.safety[1]))),
              !.pc = "bypass_escalate"]

\* the escalation attempt is over, up to `await self.session.commit()`
OnEscalate(f, outcome) ==
    [f EXCEPT !.escalation = outcome, !.pc = AfterEscalation(outcome)]

\* commit returned: the session is flushed and query returns its explanation
OnCommit(f) ==
    [f EXCEPT !.pending = <<>>,
              !.explanation =
                  IF f.pc = "bypass_commit"
                  THEN CausalExplanation(f.symptom, NoneStr, 1000, <<>>, RestNarrative,
                           TRUE, EscalationTriggered(f.escalation))
                  ELSE f.explanation,
              !.pc = "done"]

\* the caller of query q is being served
QRunning(q) == q_requests[q] # NoCall /\ q_frames[Slot(q)].pc # "done"

QStart(q) ==
    /\ q_requests[q] = NoCall
    /\ \E s \in Symptoms :
        /\ q_requests' = [q_requests EXCEPT ![q] =
               [fn |-> "query", symptom |-> s, evidence |-> NoEvidence,
                overlaps |-> \E o \in Queries \ {q} : QRunning(o)]]
        /\ q_frames' = [q_frames EXCEPT ![Slot(q)] = QueryEnter(s)]
    /\ UNCHANGED <<q_db, q_returned>>
    /\ UNCHANGED nonConcVars

QGetPulse(q) ==
    /\ QRunning(q)
    /\ q_frames[Slot(q)].pc = "pulse"
    /\ \E r \in PulseEvidence :
        /\ q_frames' = [q_frames EXCEPT ![Slot(q)] = OnPulse(@, r)]
        /\ q_requests' = [q_requests EXCEPT ![q].evidence.pulse = r]
    /\ UNCHANGED <<q_db, q_returned>>
    /\ UNCHANGED nonConcVars

QGetGlucose(q) ==
    /\ QRunning(q)
    /\ q_frames[Slot(q)].pc = "glucose"
    /\ \E r \in GlucoseEvidence :
        /\ q_frames' = [q_frames EXCEPT ![Slot(q)] = OnGlucose(@, r)]
        /\ q_requests' = [q_requests EXCEPT ![q].evidence.glucose = r]
    /\ UNCHANGED <<q_db, q_returned>>
    /\ UNCHANGED nonConcVars

QProbe(q) ==
    /\ QRunning(q)
    /\ q_frames[Slot(q)].pc = "probe"
    /\ \E rot \in get_last_session_results, ins \in get_recent_receipts_results :
        LET made == _probe(q_frames[Slot(q)].hypotheses,
                           q_frames[Slot(q)].adapter_results, rot, ins).calls
        IN  /\ q_frames' = [q_frames EXCEPT ![Slot(q)] = OnProbe(@, rot, ins)]
            /\ q_requests' =
                   [q_requests EXCEPT
                       ![q].evidence.rot =
                           IF "rotimatic_server" \in Range(made) THEN rot ELSE @,
                       ![q].evidence.ins =
                           IF "instacart_server" \in Range(made) THEN ins ELSE @]
    /\ UNCHANGED <<q_db, q_returned>>
    /\ UNCHANGED nonConcVars

QPersistSave(q) ==
    /\ QRunning(q)
    /\ q_frames[Slot(q)].pc = "persist_save"
    /\ q_frames' = [q_frames EXCEPT ![Slot(q)] = OnPersistSave(q, @)]
    /\ UNCHANGED <<q_requests, q_db, q_returned>>
    /\ UNCHANGED nonConcVars

QBypassSave(q) ==
    /\ QRunning(q)
    /\ q_frames[Slot(q)].pc = "bypass_save"
    /\ q_frames' = [q_frames EXCEPT ![Slot(q)] = OnBypassSave(q, @)]
    /\ UNCHANGED <<q_requests, q_db, q_returned>>
    /\ UNCHANGED nonConcVars

QBypassEscalate(q) ==
    /\ QRunning(q)
    /\ q_frames[Slot(q)].pc = "bypass_escalate"
    /\ \E outcome \in EscalationOutcomes :
        /\ q_frames' = [q_frames EXCEPT ![Slot(q)] = OnEscalate(@, outcome)]
        /\ q_requests' = [q_requests EXCEPT ![q].evidence.escalation = outcome]
    /\ UNCHANGED <<q_db, q_returned>>
    /\ UNCHANGED nonConcVars

QCommit(q) ==
    /\ QRunning(q)
    /\ q_frames[Slot(q)].pc \in {"persist_commit", "bypass_commit"}
    /\ q_db' = Commit(q_db, q_frames[Slot(q)].pending)
    /\ q_frames' = [q_frames EXCEPT ![Slot(q)] = OnCommit(@)]
    /\ q_returned' = Append(q_returned,
           [query |-> q, explanation |-> OnCommit(q_frames[Slot(q)]).explanation])
    /\ UNCHANGED q_requests
    /\ UNCHANGED nonConcVars

NextConcurrent ==
    \E q \in Queries :
        \/ QStart(q)
        \/ QGetPulse(q)
        \/ QGetGlucose(q)
        \/ QProbe(q)
        \/ QPersistSave(q)
        \/ QBypassSave(q)
        \/ QBypassEscalate(q)
        \/ QCommit(q)

SpecConcurrent == Init /\ [][NextConcurrent]_vars

\* --- the same query served alone, on the evidence it read
AloneStep(q, f, ev) ==
    CASE f.pc = "pulse" -> OnPulse(f, ev.pulse)
      [] f.pc = "glucose" -> OnGlucose(f, ev.glucose)
      [] f.pc = "probe" -> OnProbe(f, ev.rot, ev.ins)
      [] f.pc = "persist_save" -> OnPersistSave(q, f)
      [] f.pc = "bypass_save" -> OnBypassSave(q, f)
      [] f.pc = "bypass_escalate" -> OnEscalate(f, ev.escalation)
      [] OTHER -> OnCommit(f)

\* the frames the lone run goes through, the last one being the returned one
RECURSIVE AloneRun(_, _, _)
AloneRun(q, f, ev) ==
    IF f.pc = "done" THEN <<f>> ELSE <<f>> \o AloneRun(q, AloneStep(q, f, ev), ev)

QTraces(q) == SelectSeq(q_db, LAMBDA t : t.query = q)
QReturned(q) == SelectSeq(q_returned, LAMBDA r : r.query = q)

\* C25: with two query() calls interleaved at their awaits, each call's
\* hypotheses, observations, adapter results and pending rows are at every
\* moment those of the same call served alone on the evidence it read, and
\* its returned explanation and committed trace are those of the lone run.
C25_ConcurrentQueriesIsolated ==
    \A q \in Queries :
        q_requests[q] # NoCall =>
            LET run == AloneRun(q, QueryEnter(q_requests[q].symptom),
                                q_requests[q].evidence)
                f == q_frames[Slot(q)]
            IN  /\ \E i \in DOMAIN run : run[i] = f
                /\ f.pc # "done" => QReturned(q) = <<>> /\ QTraces(q) = <<>>
                /\ f.pc = "done" =>
                    /\ QReturned(q) =
                           <<[query |-> q, explanation |-> run[Len(run)].explanation]>>
                    /\ QTraces(q) = run[Len(run) - 1].pending

\* two overlapping queries have both returned, the one that started second
\* first; one was bypassed and the other reasoned to a conclusion
C25_Witness ==
    /\ Len(q_returned) = 2
    /\ q_requests[q_returned[1].query].overlaps
    /\ q_returned[1].explanation.safety_bypass
    /\ ~q_returned[2].explanation.safety_bypass
    /\ q_returned[2].explanation.conclusion = "metabolic"
    /\ q_returned[1].explanation.symptom # q_returned[2].explanation.symptom
    /\ Len(q_db) = 2

====
